---- MODULE Spec2Model ----
(***************************************************************************)
(* A model of maintainer.me's event poller: the poll loop (Poller.Poll,    *)
(* PollUsers, PollUser), the incremental fetch (ListNewEvents,             *)
(* haveObserved), the rule evaluation (Event.Filter) and the database      *)
(* stub (SQLDB) they run against.                                          *)
(*                                                                         *)
(* Time is abstracted to small naturals that keep the order of the         *)
(* instants the code compares: the zero time.Time is 0, the first-poll     *)
(* substitute (2017-06-30) is 1, the watermark SQLDB.Users hard-codes      *)
(* (2017-07-03) is 2.                                                      *)
(***************************************************************************)
EXTENDS Naturals, Sequences, FiniteSets, TLC

----------------------------------------------------------------------------
(* Bounds of the model.                                                    *)

\* The most events the remote feed ever holds.
MaxFeed == 4

\* The latest createdAt an event of the feed can carry.
MaxTime == 5

\* The most ticks of the poller's ticker.
MaxTicks == 1

\* The most filters, and the most conditions over all of them, of the
\* rule sets Event.Filter is evaluated on.
MaxFilters == 2

MaxConds == 2

\* Events per page of the remote listing.
PerPage == 2

\* The largest X-Poll-Interval (seconds) the remote sends.
MaxPollInterval == 2

\* The most users db.Users() returns (more than PollUsers tolerates errors).
MaxUsers == 7

\* HTTP requests the web server handles, any number of them at once.
MaxRequests == 2

\* Browser sessions the requests come in.
MaxSessions == 2

\* The largest GitHub user ID (0 is the ID of no user).
MaxGitHubID == 2

\* The most new events listNewEvents of poller/poller.go returns.
MaxNewEvents == 6

----------------------------------------------------------------------------
(* Program constants.                                                      *)

\* time.Time{}: IsZero() is true of it alone.
ZeroTime == 0

\* time.Date(2017, 06, 30, ...) of PollUser: the substitute of a zero watermark.
FirstPollEpoch == 1

\* time.Date(2017, 07, 03, ...) of SQLDB.Users: the hard-coded watermark.
SQLUsersLastCreatedAt == 2

\* PollUsers gives up once errorCount exceeds this.
MaxErrorCount == 5

----------------------------------------------------------------------------
(* Rules: db.Filter and db.Condition.                                      *)

\* A condition's columns (the matchers the model keeps: type, payload
\* action and visibility; 0 = any, 1 = public, 2 = private).
Condition(negate, type, action, public) ==
    [Negate |-> negate, Type |-> type, PayloadAction |-> action, Public |-> public]

\* ConditionMatchers with an empty matcher read as a value to equal.
ConditionMatchersNoWildcard(c, raw) ==
    /\ c.Type = raw.Type
    /\ c.PayloadAction = raw.Action
    /\ (c.Public = 1 => raw.Public)
    /\ (c.Public = 2 => ~raw.Public)

\* The AND of the non-empty matchers of one condition, before negation.
ConditionMatchers(c, raw) ==
    /\ (c.Type # "" => c.Type = raw.Type)
    /\ (c.PayloadAction # "" => c.PayloadAction = raw.Action)
    /\ (c.Public = 1 => raw.Public)
    /\ (c.Public = 2 => ~raw.Public)

\* Condition.Matches: the matchers' result, inverted when Negate is set.
ConditionMatches(c, raw) == ConditionMatchers(c, raw) # c.Negate

\* FilterMatches with Negate inverting the filter's result as a whole.
FilterMatchesNegateWhole(f, raw) ==
    (\A i \in 1..Len(f.Conditions) : ConditionMatchers(f.Conditions[i], raw))
        # (\E i \in 1..Len(f.Conditions) : f.Conditions[i].Negate)

\* Filter.Matches: every condition of the filter matches.
FilterMatches(f, raw) ==
    \A i \in 1..Len(f.Conditions) : ConditionMatches(f.Conditions[i], raw)

RECURSIVE FirstMatch(_, _, _)
\* The index of the first filter from i on that matches raw, 0 if none does.
FirstMatch(fs, raw, i) ==
    IF i > Len(fs) THEN 0
    ELSE IF FilterMatches(fs[i], raw) THEN i
    ELSE FirstMatch(fs, raw, i + 1)

\* EventFilter inverting the flag of an event that matches no filter.
EventFilterFlipUnmatched(e, fs) ==
    LET m == FirstMatch(fs, e.RawEvent, 1)
    IN  [e EXCEPT !.Discarded = IF m # 0 THEN fs[m].OnMatchDiscard ELSE ~e.Discarded]

\* EventFilter without the return in its loop: the last match decides.
EventFilterLastMatch(e, fs) ==
    LET ms == {i \in 1..Len(fs) : FilterMatches(fs[i], e.RawEvent)}
        m == IF ms = {} THEN 0 ELSE CHOOSE i \in ms : \A j \in ms : j <= i
    IN  [e EXCEPT !.Discarded = IF m # 0 THEN fs[m].OnMatchDiscard ELSE TRUE]

\* Event.Filter: the first matching filter's OnMatchDiscard; an event that
\* matches no filter is discarded.
EventFilter(e, fs) ==
    LET m == FirstMatch(fs, e.RawEvent, 1)
    IN  [e EXCEPT !.Discarded = IF m # 0 THEN fs[m].OnMatchDiscard ELSE TRUE]

\* Events.Filter: Event.Filter on every event. The caller's second argument
\* (the user's FilterDefaultDiscard) has no parameter to land in.
EventsFilter(es, fs, defaultDiscard) ==
    [i \in 1..Len(es) |-> EventFilter(es[i], fs)]

----------------------------------------------------------------------------
(* The incremental fetch.                                                  *)

\* haveObserved without query.Equal(observed).
haveObservedBefore(observed, query) ==
    observed # ZeroTime /\ query < observed

\* haveObserved with the negation of observed.IsZero() lost.
haveObservedIsZero(observed, query) ==
    observed = ZeroTime /\ (query < observed \/ query = observed)

\* haveObserved(observed, query).
haveObserved(observed, query) ==
    observed # ZeroTime /\ (query < observed \/ query = observed)

\* A Go string as the sequence of its non-empty fragments: "" is << >>.
Str(s) == IF s = "" THEN << >> ELSE << s >>

\* The decimal digits %d prints of n: never empty.
Decimal(n) == << ToString(n) >>

RECURSIVE Sprintf(_)
\* fmt.Sprintf: the fragments of the format and of its arguments, in the
\* order of the format.
Sprintf(parts) ==
    IF parts = << >> THEN << >> ELSE Head(parts) \o Sprintf(Tail(parts))

\* NewEvent with the event marked discarded from the start.
NewEventDiscarded(raw) ==
    [RawEvent |-> raw, CreatedAt |-> raw.CreatedAt, Type |-> raw.Type,
     Public |-> raw.Public, Discarded |-> TRUE,
     Actor |-> << >>, Action |-> << >>, Subject |-> << >>,
     Title |-> << >>, Body |-> << >>]

\* ParseEvent: e := &Event{...}, the fields not named being zero.
NewEvent(raw) ==
    [RawEvent |-> raw, CreatedAt |-> raw.CreatedAt, Type |-> raw.Type,
     Public |-> raw.Public, Discarded |-> FALSE,
     Actor |-> << >>, Action |-> << >>, Subject |-> << >>,
     Title |-> << >>, Body |-> << >>]

\* "%s (#%d)" of an issue's or a pull request's title and number.
TitleAndNumber(raw) ==
    Sprintf(<< Str(raw.IssueTitle), Str(" (#"), Decimal(raw.Number), Str(")") >>)

\* ParseEvent: the switch on the payload's type. The payload's type is
\* the one ParsePayload chooses for the event's type.
SwitchPayload(e, raw) ==
    LET actor == Str(raw.Actor)
        repo  == Str(raw.Repo)
        Titled(action, subject, body, title) ==
            [e EXCEPT !.Actor = actor, !.Action = action, !.Subject = subject,
                      !.Body = body, !.Title = title]
    IN  CASE raw.Type = "CommitCommentEvent" ->
               LET action  == Str("commented")
                   subject == Str(raw.CommitID)
               IN  Titled(action, subject, Str(raw.Body),
                          Sprintf(<< Str("["), repo, Str("] "), actor, Str(" "),
                                     action, Str(" on "), subject >>))
          [] raw.Type = "CreateEvent" ->
               LET action  == Sprintf(<< Str("created "), Str(raw.RefType) >>)
                   subject == IF raw.Ref = "" THEN repo ELSE Str(raw.Ref)
               IN  Titled(action, subject, << >>,
                          Sprintf(<< Str("["), repo, Str("] "), actor, Str(" "),
                                     action, Str(" "), subject >>))
          [] raw.Type = "ForkEvent" ->
               LET action == Str("forked")
               IN  Titled(action, repo, << >>,
                          Sprintf(<< Str("["), repo, Str("] "), actor, Str(" "),
                                     action, Str(" repository") >>))
          [] raw.Type = "GollumEvent" ->
               LET action == Str("edited")
               IN  Titled(action, repo, << >>,
                          Sprintf(<< Str("["), repo, Str("] "), actor, Str(" "),
                                     action, Str(" wiki on "), repo >>))
          [] raw.Type = "IssueCommentEvent" ->
               LET verb == CASE raw.Action = "created" -> Str("commented on")
                             [] raw.Action = "edited comment in" -> Str("edited comment in")
                             [] raw.Action = "deleted" -> Str("deleted comment in")
                             [] OTHER -> << >>
                   subject == TitleAndNumber(raw)
               IN  Titled(Str(raw.Action), subject, Str(raw.Body),
                          Sprintf(<< Str("["), repo, Str("] "), actor, Str(" "),
                                     verb, Str(" "), subject >>))
          [] raw.Type \in {"IssuesEvent", "PullRequestEvent"} ->
               LET action  == Str(raw.Action)
                   subject == TitleAndNumber(raw)
               IN  Titled(action, subject, Str(raw.Body),
                          Sprintf(<< Str("["), repo, Str("] "), actor, Str(" "),
                                     action, Str(" "), subject >>))
          [] raw.Type = "PushEvent" ->
               LET action  == Str("pushed")
                   subject == Sprintf(<< repo, Str(" "), Str(raw.Ref) >>)
               IN  Titled(action, subject, << >>,
                          Sprintf(<< Str("["), repo, Str("] "), actor, Str(" "),
                                     action, Str(" "), Decimal(raw.Commits),
                                     Str(" commits to "), subject >>))
          [] OTHER -> e

\* ParseEvent with the title of a push left out.
ParseEventNoPushTitle(raw) ==
    LET e == SwitchPayload(NewEvent(raw), raw)
    IN  [e EXCEPT !.Title = IF raw.Type = "PushEvent" THEN << >> ELSE @]

\* ParseEvent on a payload that decodes.
ParseEvent(raw) == SwitchPayload(NewEvent(raw), raw)

\* Event.String.
String(e) == e.Title

RECURSIVE ScanPageSkipUndecodable(_, _, _, _)
\* ScanPage going on to the next event when a payload does not parse.
ScanPageSkipUndecodable(page, lastCreatedAt, i, acc) ==
    IF i > Len(page) THEN [events |-> acc, status |-> "end"]
    ELSE IF haveObserved(lastCreatedAt, page[i].CreatedAt)
         THEN [events |-> acc, status |-> "break"]
    ELSE IF ~page[i].PayloadOK
         THEN ScanPageSkipUndecodable(page, lastCreatedAt, i + 1, acc)
    ELSE ScanPageSkipUndecodable(page, lastCreatedAt, i + 1,
                                 Append(acc, ParseEvent(page[i])))

RECURSIVE ScanPageInnerBreak(_, _, _, _)
\* ScanPage with a plain break at an observed event: the page's loop is
\* left, the loop over the pages is not.
ScanPageInnerBreak(page, lastCreatedAt, i, acc) ==
    IF i > Len(page) THEN [events |-> acc, status |-> "end"]
    ELSE IF haveObserved(lastCreatedAt, page[i].CreatedAt)
         THEN [events |-> acc, status |-> "end"]
    ELSE IF ~page[i].PayloadOK THEN [events |-> acc, status |-> "err"]
    ELSE ScanPageInnerBreak(page, lastCreatedAt, i + 1, Append(acc, ParseEvent(page[i])))

RECURSIVE ScanPagePrepend(_, _, _, _)
\* ScanPage putting each parsed event before the events collected so far.
ScanPagePrepend(page, lastCreatedAt, i, acc) ==
    IF i > Len(page) THEN [events |-> acc, status |-> "end"]
    ELSE IF haveObserved(lastCreatedAt, page[i].CreatedAt)
         THEN [events |-> acc, status |-> "break"]
    ELSE IF ~page[i].PayloadOK THEN [events |-> acc, status |-> "err"]
    ELSE ScanPagePrepend(page, lastCreatedAt, i + 1, << ParseEvent(page[i]) >> \o acc)

RECURSIVE ScanPage(_, _, _, _)
\* The inner loop of ListNewEvents over one page, from event i on: the
\* events appended and how the loop ended ("break": an observed event was
\* met, "err": a payload did not parse, "end": the page is exhausted).
ScanPage(page, lastCreatedAt, i, acc) ==
    IF i > Len(page) THEN [events |-> acc, status |-> "end"]
    ELSE IF haveObserved(lastCreatedAt, page[i].CreatedAt)
         THEN [events |-> acc, status |-> "break"]
    ELSE IF ~page[i].PayloadOK THEN [events |-> acc, status |-> "err"]
    ELSE ScanPage(page, lastCreatedAt, i + 1, Append(acc, ParseEvent(page[i])))

\* The remote's page p of a listing (newest first).
PageOf(listing, p) ==
    SubSeq(listing, (p - 1) * PerPage + 1,
           IF p * PerPage < Len(listing) THEN p * PerPage ELSE Len(listing))

\* NextPage with no page after the first.
NextPageNone(listing, p) == 0

\* NextPage with a following page after every page.
NextPageAlways(listing, p) == p + 1

\* response.NextPage: the following page while events remain, else 0.
NextPage(listing, p) == IF p * PerPage < Len(listing) THEN p + 1 ELSE 0

\* AfterListNewEvents with the poll result written whatever was fetched.
AfterListNewEventsAlwaysWrite(es) == "SetUsersPollResult"

\* AfterListNewEvents with the write of the poll result left out.
AfterListNewEventsNoWrite(es) == "Filter"

\* PollUser: if len(events) > 0, the poll result is written before the
\* events are filtered.
AfterListNewEvents(es) == IF Len(es) > 0 THEN "SetUsersPollResult" ELSE "Filter"

\* NewWatermark taking the oldest of the events.
NewWatermarkOldest(es) == es[Len(es)].CreatedAt

\* PollUser: events[0].CreatedAt, the watermark it writes.
NewWatermark(es) == es[1].CreatedAt

----------------------------------------------------------------------------
(* The database stub.                                                      *)

\* SQLDB.Users: one hard-coded user, whatever was stored before.
SQLDBUsers ==
    << [ID |-> 1, EventLastCreatedAt |-> SQLUsersLastCreatedAt,
        EventNextPoll |-> ZeroTime, FilterDefaultDiscard |-> FALSE] >>

\* SQLDB.UsersFilters: five hard-coded single-condition filters.
SQLDBUsersFilters ==
    << [Conditions |-> << Condition(FALSE, "PullRequestEvent", "", 0) >>, OnMatchDiscard |-> FALSE],
       [Conditions |-> << Condition(FALSE, "CommitCommentEvent", "", 0) >>, OnMatchDiscard |-> FALSE],
       [Conditions |-> << Condition(FALSE, "IssuesEvent", "opened", 0) >>, OnMatchDiscard |-> FALSE],
       [Conditions |-> << Condition(FALSE, "WatchEvent", "", 0) >>, OnMatchDiscard |-> FALSE],
       [Conditions |-> << Condition(FALSE, "PullRequestReviewCommentEvent", "", 0) >>, OnMatchDiscard |-> FALSE] >>

----------------------------------------------------------------------------
(* The poller.                                                             *)

VARIABLES
    feed,          \* the remote listing of the user's received events, newest first
    now,           \* the number of ticks so far, read as time.Now()
    cancelled,     \* ctx is cancelled
    pc,            \* where the poller goroutine stands
    users,         \* PollUsers: the users db.Users() returned
    idx,           \* PollUsers: the index of the user being polled
    errorCount,    \* PollUsers: errorCount
    user,          \* PollUser: its copy of the user
    filters,       \* PollUser: the user's filters
    opt,           \* ListNewEvents: opt.Page
    events,        \* ListNewEvents/PollUser: the events collected
    pollInterval,  \* ListNewEvents: pollInterval
    notifyIdx,     \* PollUser: the position of the notification loop
    result,        \* the outcome of the latest PollUser ("" is a nil error)
    calls,         \* history: the collaborator calls of the current PollUser
    notifyCount,   \* history: how often each event id was passed to Notify
    dbUsers,       \* the users db.Users() returns
    polled,        \* history: the users PollUsers has polled, and whether each failed
    usersErr,      \* the error PollUsers returned to Poll ("" is nil)
    headers,       \* history: the X-Poll-Interval header of each response
                   \* to the ListNewEvents call in progress or just returned
    sqlUsers,      \* the rows of the users table, in the order of their id
    session,       \* the data of each browser session, by key
    reqs,          \* the HTTP requests: where each stands in its handler,
                   \* the handler's variables, and the response
    notifyEvents,  \* poller/poller.go, PollUser: notifyEvents
    sqlFilters,    \* the rows of the filters table, in the order of their id
    sqlConditions  \* the rows of the conditions table, in the order of their id

vars == << feed, now, cancelled, pc, users, idx, errorCount, user, filters, opt,
           events, pollInterval, notifyIdx, result, calls, notifyCount,
           dbUsers, polled, usersErr, headers, sqlUsers, session, reqs,
           notifyEvents, sqlFilters, sqlConditions >>

webVars == << sqlUsers, session, reqs, sqlFilters, sqlConditions >>

\* What the poller of src/unnamed/part_000 leaves alone: the web server,
\* and the local of the PollUser of poller/poller.go.
otherVars == << webVars, notifyEvents >>

\* A nil *db.Filter, and the db.Filter of a row: the fields the console reads.
NoFilter == [ID |-> 0, UserID |-> 0, OnMatchDiscard |-> FALSE]

\* &db.Condition{}: the fields the form decoder can set.
NoCondition == [ID |-> 0, FilterID |-> 0, Negate |-> FALSE, Type |-> << >>]

\* A request no handler has taken up yet.
NoRequest ==
    [pc |-> "idle", handler |-> "", sess |-> 0, path |-> "", githubID |-> 0,
     token |-> 0, userID |-> 0, loggedIn |-> FALSE, err |-> FALSE,
     status |-> 0, location |-> "", served |-> FALSE,
     filterID |-> 0, filter |-> NoFilter, condition |-> NoCondition,
     conditionID |-> 0, page |-> NoFilter, field |-> "", value |-> << >>]

\* The web server at start: no user, empty sessions, no request handled.
WebInit ==
    /\ sqlUsers = << >>
    /\ session = [s \in 1..MaxSessions |-> << >>]
    /\ reqs = [r \in 1..MaxRequests |-> NoRequest]
    /\ sqlFilters = << >>
    /\ sqlConditions = << >>

\* The web server is not running: the poller is a program of its own, and
\* nothing of the server is there for it.
NoWeb ==
    /\ sqlUsers = << >>
    /\ session = << >>
    /\ reqs = << >>
    /\ sqlFilters = << >>
    /\ sqlConditions = << >>

\* The kinds of raw event the remote sends: type, payload action, and
\* whether the payload decodes.
RawKinds ==
    { [Type |-> "IssuesEvent", Action |-> "opened", PayloadOK |-> TRUE],
      [Type |-> "PushEvent", Action |-> "", PayloadOK |-> TRUE],
      [Type |-> "PushEvent", Action |-> "", PayloadOK |-> FALSE] }

\* A github.Event: what ParseEvent and the filters read of it and of its
\* payload.
RawEvent(id, t, k) ==
    [ID |-> id, CreatedAt |-> t, Type |-> k.Type, Action |-> k.Action,
     Public |-> TRUE, PayloadOK |-> k.PayloadOK,
     Actor |-> "bradleyfalzon", Repo |-> "golang/go", RefType |-> "", Ref |-> "",
     CommitID |-> "", IssueTitle |-> "", Number |-> 0, Body |-> "", Commits |-> 0]

NoUser ==
    [ID |-> 0, EventLastCreatedAt |-> ZeroTime, EventNextPoll |-> ZeroTime,
     FilterDefaultDiscard |-> FALSE]

Init ==
    /\ feed = << >>
    /\ now = 0
    /\ cancelled = FALSE
    /\ pc = "Poll"
    /\ users = << >>
    /\ idx = 0
    /\ errorCount = 0
    /\ user = NoUser
    /\ filters = << >>
    /\ opt = 0
    /\ events = << >>
    /\ pollInterval = 0
    /\ notifyIdx = 0
    /\ result = ""
    /\ calls = << >>
    /\ notifyCount = [id \in 1..MaxFeed |-> 0]
    /\ dbUsers = SQLDBUsers
    /\ polled = << >>
    /\ usersErr = ""
    /\ headers = << >>
    /\ NoWeb
    /\ notifyEvents = << >>

pollerVars == << pc, users, idx, errorCount, user, filters, opt, events,
                 pollInterval, notifyIdx, result, calls, notifyCount,
                 dbUsers, polled, usersErr, headers >>

\* The remote: between two polls a new event appears at the head of the
\* feed, created in the second of the one before it or in the next. (The
\* code only compares instants, so larger gaps add nothing. The listing is
\* taken to stand still while one ListNewEvents pages through it.)
AddEvent ==
    /\ pc = "Poll"
    /\ Len(feed) < MaxFeed
    /\ \E k \in RawKinds :
       \E t \in 1..MaxTime :
           /\ IF feed = << >>
              THEN t <= SQLUsersLastCreatedAt + 1
              ELSE t \in {feed[1].CreatedAt, feed[1].CreatedAt + 1}
           /\ feed' = << RawEvent(Len(feed) + 1, t, k) >> \o feed
    /\ UNCHANGED << now, cancelled >>
    /\ UNCHANGED << pollerVars, otherVars >>

\* The context passed to Poll is cancelled. (Only Poll's select and the
\* requests of ListNewEvents read the context.)
Cancel ==
    /\ pc \in {"Poll", "PollUser", "ListNewEvents"}
    /\ ~cancelled
    /\ cancelled' = TRUE
    /\ UNCHANGED << feed, now >>
    /\ UNCHANGED << pollerVars, otherVars >>

\* PollUser returns err ("" is nil): its locals go out of scope.
PollUserReturns(err) ==
    /\ pc' = "PollUsers"
    /\ result' = err
    /\ user' = NoUser
    /\ filters' = << >>
    /\ opt' = 0
    /\ events' = << >>
    /\ pollInterval' = 0
    /\ notifyIdx' = 0
    /\ headers' = << >>
    /\ UNCHANGED otherVars

\* Poll: case <-ticker.C, up to PollUsers' call of db.Users() and the first
\* iteration of its loop.
PollUsersBegins ==
    /\ now' = now + 1
    /\ \E err \in BOOLEAN :
          IF err
          THEN /\ usersErr' = "Users"
               /\ pc' = "PollUsersReturned"
               /\ UNCHANGED << users, idx, errorCount >>
          ELSE /\ users' = dbUsers
               /\ errorCount' = 0
               /\ idx' = 1
               /\ usersErr' = ""
               /\ pc' = IF dbUsers = << >> THEN "PollUsersReturned" ELSE "PollUser"
    /\ UNCHANGED << feed, cancelled, user, filters, opt, events, pollInterval,
                    notifyIdx, result, calls, notifyCount, dbUsers, polled,
                    headers, otherVars >>

\* The ticker ticks, MaxTicks times at most.
Tick ==
    /\ pc = "Poll"
    /\ now < MaxTicks
    /\ PollUsersBegins

\* Poll: case <-ctx.Done().
Done ==
    /\ pc = "Poll"
    /\ cancelled
    /\ pc' = "returned"
    /\ UNCHANGED << feed, now, cancelled, users, idx, errorCount, user, filters,
                    opt, events, pollInterval, notifyIdx, result, calls,
                    notifyCount, dbUsers, polled, usersErr, headers,
                    otherVars >>

\* FirstPollSubstitute leaving a zero watermark as it is.
FirstPollSubstituteNone(u) == u

\* PollUser: a zero EventLastCreatedAt is replaced by the first-poll epoch.
FirstPollSubstitute(u) ==
    IF u.EventLastCreatedAt = ZeroTime
    THEN [u EXCEPT !.EventLastCreatedAt = FirstPollEpoch]
    ELSE u

\* PollUser, up to the first request of ListNewEvents.
PollUser ==
    /\ pc = "PollUser"
    /\ calls' = << >>
    /\ \E err \in BOOLEAN :
          IF err
          THEN PollUserReturns("UsersFilters")
          ELSE /\ user' = FirstPollSubstitute(users[idx])
               /\ filters' = SQLDBUsersFilters
               /\ opt' = 1
               /\ pc' = "ListNewEvents"
               /\ UNCHANGED << events, pollInterval, notifyIdx, result, headers,
                               otherVars >>
    /\ UNCHANGED << feed, now, cancelled, users, idx, errorCount, notifyCount,
                    dbUsers, polled, usersErr >>

\* PollUser returns the error of the X-Poll-Interval header of a response:
\* as PollUserReturns, the header kept in the history.
HeaderFails(header) ==
    /\ pc' = "PollUsers"
    /\ result' = "X-Poll-Interval"
    /\ user' = NoUser
    /\ filters' = << >>
    /\ opt' = 0
    /\ events' = << >>
    /\ pollInterval' = 0
    /\ notifyIdx' = 0
    /\ headers' = Append(headers, header)
    /\ UNCHANGED otherVars

DecimalDigits == { "0", "1", "2", "3", "4", "5", "6", "7", "8", "9" }

DigitValue(c) == CHOOSE d \in 0..9 : ToString(d) = c

RECURSIVE FormatInt(_)
\* The remote writes the interval in decimal.
FormatInt(n) ==
    IF n < 10 THEN << ToString(n) >>
    ELSE FormatInt(n \div 10) \o << ToString(n % 10) >>

RECURSIVE ParseDigits(_, _)
ParseDigits(str, acc) ==
    IF str = << >> THEN acc
    ELSE ParseDigits(Tail(str), 10 * acc + DigitValue(Head(str)))

\* ParseInt reading the empty string as 0.
ParseIntEmptyIsZero(str) ==
    IF \E i \in 1..Len(str) : str[i] \notin DecimalDigits
    THEN [err |-> TRUE, n |-> 0]
    ELSE [err |-> FALSE, n |-> ParseDigits(str, 0)]

\* strconv.ParseInt(str, 10, 32) of a string (the sequence of its
\* characters) without sign: a syntax error for the empty string and for
\* one with a character that is no digit.
ParseInt(str) ==
    IF str = << >> \/ \E i \in 1..Len(str) : str[i] \notin DecimalDigits
    THEN [err |-> TRUE, n |-> 0]
    ELSE [err |-> FALSE, n |-> ParseDigits(str, 0)]

\* A response without the X-Poll-Interval header.
NoHeader == [present |-> FALSE, value |-> << >>]

\* response.Response.Header.Get("X-Poll-Interval"): the header's value, ""
\* when the response has no such header.
HeaderGet(header) == IF header.present THEN header.value ELSE << >>

\* The X-Poll-Interval of a response: none, one that is no number, or a
\* number of seconds.
XPollIntervalHeaders ==
    { NoHeader, [present |-> TRUE, value |-> << "x" >>] }
       \cup { [present |-> TRUE, value |-> FormatInt(n)] : n \in 1..MaxPollInterval }

\* What a request of the listing can yield: a transport error, a response
\* whose X-Poll-Interval does not parse, or a page with its interval. A
\* cancelled context fails the request.
Response(status, interval, header) ==
    [status |-> status, pollInterval |-> interval, header |-> header]

\* ListNewEvents: pollInt, err := strconv.ParseInt(Header.Get(...), 10, 32).
ResponseOf(header) ==
    LET pollInt == ParseInt(HeaderGet(header))
    IN  IF pollInt.err THEN Response("badheader", 0, header)
        ELSE Response("ok", pollInt.n, header)

Responses ==
    IF cancelled THEN {Response("error", 0, NoHeader)}
    ELSE {Response("error", 0, NoHeader)}
         \cup { ResponseOf(header) : header \in XPollIntervalHeaders }

\* ListPage with the poll interval taken from the first page only.
ListPageFirstInterval ==
    /\ pc = "ListNewEvents"
    /\ \E resp \in Responses :
          IF resp.status = "error"
          THEN PollUserReturns("ListEventsReceivedByUser")
          ELSE IF resp.status = "badheader"
          THEN HeaderFails(resp.header)
          ELSE LET scan == ScanPage(PageOf(feed, opt), user.EventLastCreatedAt, 1, events)
                   next == NextPage(feed, opt)
               IN  IF scan.status = "err"
                   THEN PollUserReturns("ParseEvent")
                   ELSE /\ events' = scan.events
                        /\ pollInterval' = IF opt = 1 THEN resp.pollInterval ELSE pollInterval
                        /\ headers' = Append(headers, resp.header)
                        /\ UNCHANGED otherVars
                        /\ IF scan.status = "end" /\ next # 0
                           THEN /\ opt' = next
                                /\ UNCHANGED pc
                           ELSE /\ opt' = opt
                                /\ pc' = AfterListNewEvents(scan.events)
                        /\ UNCHANGED << user, filters, notifyIdx, result >>
    /\ UNCHANGED << feed, now, cancelled, users, idx, errorCount, calls,
                    notifyCount, dbUsers, polled, usersErr >>

\* ListNewEvents: one iteration of its loop (one page), and on its last
\* iteration PollUser up to the database write.
ListPage ==
    /\ pc = "ListNewEvents"
    /\ \E resp \in Responses :
          IF resp.status = "error"
          THEN PollUserReturns("ListEventsReceivedByUser")
          ELSE IF resp.status = "badheader"
          THEN HeaderFails(resp.header)
          ELSE LET scan == ScanPage(PageOf(feed, opt), user.EventLastCreatedAt, 1, events)
                   next == NextPage(feed, opt)
               IN  IF scan.status = "err"
                   THEN PollUserReturns("ParseEvent")
                   ELSE /\ events' = scan.events
                        /\ pollInterval' = resp.pollInterval
                        /\ headers' = Append(headers, resp.header)
                        /\ UNCHANGED otherVars
                        /\ IF scan.status = "end" /\ next # 0
                           THEN /\ opt' = next
                                /\ UNCHANGED pc
                           ELSE /\ opt' = opt
                                /\ pc' = AfterListNewEvents(scan.events)
                        /\ UNCHANGED << user, filters, notifyIdx, result >>
    /\ UNCHANGED << feed, now, cancelled, users, idx, errorCount, calls,
                    notifyCount, dbUsers, polled, usersErr >>

\* NextPoll without the poll interval added.
NextPollNow(t, interval) == t

\* PollUser: time.Now().Add(pollInterval).
NextPoll(t, interval) == t + interval

\* SetUsersPollResult with the returned error not checked.
SetUsersPollResultUnchecked ==
    /\ pc = "SetUsersPollResult"
    /\ \E err \in BOOLEAN :
          calls' = Append(calls, [op |-> "SetUsersPollResult",
                                  userID |-> user.ID,
                                  lastCreatedAt |-> NewWatermark(events),
                                  nextPoll |-> NextPoll(now, pollInterval),
                                  err |-> err])
    /\ pc' = "Filter"
    /\ headers' = << >>
    /\ UNCHANGED otherVars
    /\ UNCHANGED << feed, now, cancelled, users, idx, errorCount, user, filters,
                    opt, events, pollInterval, notifyIdx, result, notifyCount,
                    dbUsers, polled, usersErr >>

\* PollUser: p.db.SetUsersPollResult(user.ID, events[0].CreatedAt,
\* time.Now().Add(pollInterval)). SQLDB stores nothing.
SetUsersPollResult ==
    /\ pc = "SetUsersPollResult"
    /\ \E err \in BOOLEAN :
          /\ calls' = Append(calls, [op |-> "SetUsersPollResult",
                                     userID |-> user.ID,
                                     lastCreatedAt |-> NewWatermark(events),
                                     nextPoll |-> NextPoll(now, pollInterval),
                                     err |-> err])
          /\ IF err
             THEN PollUserReturns("SetUsersPollResult")
             ELSE /\ pc' = "Filter"
                  /\ headers' = << >>
                  /\ UNCHANGED otherVars
                  /\ UNCHANGED << user, filters, opt, events, pollInterval,
                                  notifyIdx, result >>
    /\ UNCHANGED << feed, now, cancelled, users, idx, errorCount, notifyCount,
                    dbUsers, polled, usersErr >>

\* PollUser: events.Filter(filters, user.FilterDefaultDiscard).
Filter ==
    /\ pc = "Filter"
    /\ events' = EventsFilter(events, filters, user.FilterDefaultDiscard)
    /\ calls' = Append(calls, [op |-> "Filter", n |-> Len(events)])
    /\ notifyIdx' = 1
    /\ headers' = << >>
    /\ UNCHANGED otherVars
    /\ pc' = "Notify"
    /\ UNCHANGED << feed, now, cancelled, users, idx, errorCount, user, filters,
                    opt, pollInterval, result, notifyCount, dbUsers, polled,
                    usersErr >>

\* Notify with the test of event.Discarded left out.
NotifyDiscardedToo ==
    /\ pc = "Notify"
    /\ IF notifyIdx > Len(events)
       THEN /\ PollUserReturns("")
            /\ UNCHANGED << calls, notifyCount >>
       ELSE \E err \in BOOLEAN :
               LET id == events[notifyIdx].RawEvent.ID
               IN  /\ calls' = Append(calls, [op |-> "Notify", id |-> id, err |-> err])
                   /\ notifyCount' = [notifyCount EXCEPT ![id] = @ + 1]
                   /\ IF err
                      THEN PollUserReturns("Notify")
                      ELSE /\ notifyIdx' = notifyIdx + 1
                           /\ UNCHANGED << pc, user, filters, opt, events,
                                           pollInterval, result, headers,
                                           otherVars >>
    /\ UNCHANGED << feed, now, cancelled, users, idx, errorCount, dbUsers,
                    polled, usersErr >>

\* Notify with the error of notifier.Notify not checked.
NotifyErrorIgnored ==
    /\ pc = "Notify"
    /\ IF notifyIdx > Len(events)
       THEN /\ PollUserReturns("")
            /\ UNCHANGED << calls, notifyCount >>
       ELSE IF events[notifyIdx].Discarded
       THEN /\ notifyIdx' = notifyIdx + 1
            /\ UNCHANGED << pc, user, filters, opt, events, pollInterval,
                            result, calls, notifyCount, headers,
                            otherVars >>
       ELSE \E err \in BOOLEAN :
               LET id == events[notifyIdx].RawEvent.ID
               IN  /\ calls' = Append(calls, [op |-> "Notify", id |-> id, err |-> err])
                   /\ notifyCount' = [notifyCount EXCEPT ![id] = @ + 1]
                   /\ notifyIdx' = notifyIdx + 1
                   /\ UNCHANGED << pc, user, filters, opt, events,
                                   pollInterval, result, headers,
                                   otherVars >>
    /\ UNCHANGED << feed, now, cancelled, users, idx, errorCount, dbUsers,
                    polled, usersErr >>

\* PollUser: one iteration of the notification loop, or its end.
Notify ==
    /\ pc = "Notify"
    /\ IF notifyIdx > Len(events)
       THEN /\ PollUserReturns("")
            /\ UNCHANGED << calls, notifyCount >>
       ELSE IF events[notifyIdx].Discarded
       THEN /\ notifyIdx' = notifyIdx + 1
            /\ UNCHANGED << pc, user, filters, opt, events, pollInterval,
                            result, calls, notifyCount, headers,
                            otherVars >>
       ELSE \E err \in BOOLEAN :
               LET id == events[notifyIdx].RawEvent.ID
               IN  /\ calls' = Append(calls, [op |-> "Notify", id |-> id, err |-> err])
                   /\ notifyCount' = [notifyCount EXCEPT ![id] = @ + 1]
                   /\ IF err
                      THEN PollUserReturns("Notify")
                      ELSE /\ notifyIdx' = notifyIdx + 1
                           /\ UNCHANGED << pc, user, filters, opt, events,
                                           pollInterval, result, headers,
                                           otherVars >>
    /\ UNCHANGED << feed, now, cancelled, users, idx, errorCount, dbUsers,
                    polled, usersErr >>

\* errors.WithMessage(err, message): nil when err is nil.
WithMessage(err, message) == IF err = "" THEN "" ELSE message

\* TooManyErrors giving up at the threshold itself.
TooManyErrorsAtThreshold(count) == count >= MaxErrorCount

\* PollUsers: if errorCount > 5.
TooManyErrors(count) == count > MaxErrorCount

\* PollUsers returning at the first user whose poll fails.
PollUsersStopAtFirstError ==
    /\ pc = "PollUsers"
    /\ LET count == IF result # "" THEN errorCount + 1 ELSE errorCount
       IN  /\ errorCount' = count
           /\ polled' = Append(polled, [id |-> users[idx].ID, failed |-> result # ""])
           /\ IF result # ""
              THEN /\ usersErr' = result
                   /\ pc' = "PollUsersReturned"
                   /\ UNCHANGED idx
              ELSE IF idx < Len(users)
              THEN /\ idx' = idx + 1
                   /\ pc' = "PollUser"
                   /\ UNCHANGED usersErr
              ELSE /\ usersErr' = ""
                   /\ pc' = "PollUsersReturned"
                   /\ UNCHANGED idx
    /\ result' = ""
    /\ calls' = << >>
    /\ headers' = << >>
    /\ UNCHANGED << feed, now, cancelled, users, user, filters, opt, events,
                    pollInterval, notifyIdx, notifyCount, dbUsers, otherVars >>

\* PollUsers polling a user again when its poll failed.
PollUsersRetryFailed ==
    /\ pc = "PollUsers"
    /\ LET count == IF result # "" THEN errorCount + 1 ELSE errorCount
       IN  /\ errorCount' = count
           /\ polled' = Append(polled, [id |-> users[idx].ID, failed |-> result # ""])
           /\ IF TooManyErrors(count)
              THEN /\ usersErr' = WithMessage(result, "too many errors")
                   /\ pc' = "PollUsersReturned"
                   /\ UNCHANGED idx
              ELSE IF result # ""
              THEN /\ pc' = "PollUser"
                   /\ UNCHANGED << idx, usersErr >>
              ELSE IF idx < Len(users)
              THEN /\ idx' = idx + 1
                   /\ pc' = "PollUser"
                   /\ UNCHANGED usersErr
              ELSE /\ usersErr' = ""
                   /\ pc' = "PollUsersReturned"
                   /\ UNCHANGED idx
    /\ result' = ""
    /\ calls' = << >>
    /\ headers' = << >>
    /\ UNCHANGED << feed, now, cancelled, users, user, filters, opt, events,
                    pollInterval, notifyIdx, notifyCount, dbUsers, otherVars >>

\* PollUsers: the rest of the loop body once PollUser has returned, and the
\* next iteration or PollUsers' own return.
PollUsers ==
    /\ pc = "PollUsers"
    /\ LET count == IF result # "" THEN errorCount + 1 ELSE errorCount
       IN  /\ errorCount' = count
           /\ polled' = Append(polled, [id |-> users[idx].ID, failed |-> result # ""])
           /\ IF TooManyErrors(count)
              THEN /\ usersErr' = WithMessage(result, "too many errors")
                   /\ pc' = "PollUsersReturned"
                   /\ UNCHANGED idx
              ELSE IF idx < Len(users)
              THEN /\ idx' = idx + 1
                   /\ pc' = "PollUser"
                   /\ UNCHANGED usersErr
              ELSE /\ usersErr' = ""
                   /\ pc' = "PollUsersReturned"
                   /\ UNCHANGED idx
    /\ result' = ""
    /\ calls' = << >>
    /\ headers' = << >>
    /\ UNCHANGED << feed, now, cancelled, users, user, filters, opt, events,
                    pollInterval, notifyIdx, notifyCount, dbUsers, otherVars >>

\* Poll returning when PollUsers returned an error.
PollReturnsOnError ==
    /\ pc = "PollUsersReturned"
    /\ pc' = IF usersErr # "" THEN "returned" ELSE "Poll"
    /\ users' = << >>
    /\ idx' = 0
    /\ errorCount' = 0
    /\ polled' = << >>
    /\ usersErr' = ""
    /\ UNCHANGED << feed, now, cancelled, user, filters, opt, events,
                    pollInterval, notifyIdx, result, calls, notifyCount, dbUsers,
                    headers, otherVars >>

\* Poll: PollUsers has returned; its error, if any, is logged and the loop
\* goes back to its select.
Poll ==
    /\ pc = "PollUsersReturned"
    /\ pc' = "Poll"
    /\ users' = << >>
    /\ idx' = 0
    /\ errorCount' = 0
    /\ polled' = << >>
    /\ usersErr' = ""
    /\ UNCHANGED << feed, now, cancelled, user, filters, opt, events,
                    pollInterval, notifyIdx, result, calls, notifyCount, dbUsers,
                    headers, otherVars >>

Next ==
    \/ AddEvent
    \/ Cancel
    \/ Tick
    \/ Done
    \/ PollUser
    \/ ListPage
    \/ SetUsersPollResult
    \/ Filter
    \/ Notify
    \/ PollUsers
    \/ Poll

Spec == Init /\ [][Next]_vars

\* The poller over one cycle more than Spec gives it: what a cycle leaves
\* for the next one.
TickAgain ==
    /\ pc = "Poll"
    /\ now < MaxTicks + 1
    /\ PollUsersBegins

NextCycles ==
    \/ AddEvent
    \/ Cancel
    \/ TickAgain
    \/ Done
    \/ PollUser
    \/ ListPage
    \/ SetUsersPollResult
    \/ Filter
    \/ Notify
    \/ PollUsers
    \/ Poll

SpecCycles == Init /\ [][NextCycles]_vars

----------------------------------------------------------------------------
(* ListNewEvents alone: any watermark, any listing (sorted or not).        *)

\* The listing an account may hold before the fetch starts.
AnyEvent ==
    /\ pc = "ListNewEvents"
    /\ opt = 1 /\ pollInterval = 0
    /\ Len(feed) < MaxFeed
    /\ \E t \in 1..MaxTime :
          feed' = Append(feed, RawEvent(Len(feed) + 1, t, [Type |-> "IssuesEvent",
                                        Action |-> "opened", PayloadOK |-> TRUE]))
    /\ UNCHANGED << now, cancelled >>
    /\ UNCHANGED << pollerVars, otherVars >>

InitFetch ==
    /\ feed = << >>
    /\ now = 1
    /\ cancelled = FALSE
    /\ pc = "ListNewEvents"
    /\ \E w \in 0..MaxTime :
          /\ user = [ID |-> 1, EventLastCreatedAt |-> w, EventNextPoll |-> ZeroTime,
                     FilterDefaultDiscard |-> FALSE]
          /\ users = << user >>
    /\ idx = 1
    /\ errorCount = 0
    /\ filters = << >>
    /\ opt = 1
    /\ events = << >>
    /\ pollInterval = 0
    /\ notifyIdx = 0
    /\ result = ""
    /\ calls = << >>
    /\ notifyCount = [id \in 1..MaxFeed |-> 0]
    /\ dbUsers = users
    /\ polled = << >>
    /\ usersErr = ""
    /\ headers = << >>
    /\ NoWeb
    /\ notifyEvents = << >>

NextFetch ==
    \/ AnyEvent
    \/ ListPage

SpecFetch == InitFetch /\ [][NextFetch]_vars

\* ListNewEvents runs on the poller's goroutine and every request it makes
\* returns (with a response or an error): its loop keeps taking steps.
SpecFetchFair == SpecFetch /\ WF_vars(ListPage)

----------------------------------------------------------------------------
(* Event.Filter alone: any rule set, any event, either default.            *)

\* The conditions and raw events the rule sets are tried on.
SampleConditions ==
    { Condition(n, t, a, 0) : n \in BOOLEAN, t \in {"", "IssuesEvent"},
                              a \in {"", "opened"} }

SampleRaw ==
    { RawEvent(1, MaxTime, [Type |-> k[1], Action |-> k[2], PayloadOK |-> TRUE]) :
        k \in { <<"IssuesEvent", "opened">>, <<"IssuesEvent", "closed">>,
                 <<"PushEvent", "">> } }

RECURSIVE CountConds(_, _)
CountConds(fs, i) ==
    IF i > Len(fs) THEN 0 ELSE Len(fs[i].Conditions) + CountConds(fs, i + 1)

\* The account holds one more filter.
AnyFilter ==
    /\ pc = "Filter"
    /\ Len(filters) < MaxFilters
    /\ \E d \in BOOLEAN :
          filters' = Append(filters, [Conditions |-> << >>, OnMatchDiscard |-> d])
    /\ UNCHANGED << feed, now, cancelled, pc, users, idx, errorCount, user, opt,
                    events, pollInterval, notifyIdx, result, calls, notifyCount,
                    dbUsers, polled, usersErr, headers,
                    otherVars >>

\* The account's last filter holds one more condition.
AnyCondition ==
    /\ pc = "Filter"
    /\ filters # << >>
    /\ CountConds(filters, 1) < MaxConds
    /\ \E c \in SampleConditions :
          filters' = [filters EXCEPT ![Len(filters)].Conditions = Append(@, c)]
    /\ UNCHANGED << feed, now, cancelled, pc, users, idx, errorCount, user, opt,
                    events, pollInterval, notifyIdx, result, calls, notifyCount,
                    dbUsers, polled, usersErr, headers,
                    otherVars >>

InitFilter ==
    /\ feed = << >>
    /\ now = 1
    /\ cancelled = FALSE
    /\ pc = "Filter"
    /\ \E d \in BOOLEAN :
          /\ user = [ID |-> 1, EventLastCreatedAt |-> SQLUsersLastCreatedAt,
                     EventNextPoll |-> ZeroTime, FilterDefaultDiscard |-> d]
          /\ users = << user >>
    /\ idx = 1
    /\ errorCount = 0
    /\ filters = << >>
    /\ opt = 1
    /\ \E raw \in SampleRaw : events = << ParseEvent(raw) >>
    /\ pollInterval = 1
    /\ notifyIdx = 0
    /\ result = ""
    /\ calls = << >>
    /\ notifyCount = [id \in 1..MaxFeed |-> 0]
    /\ dbUsers = users
    /\ polled = << >>
    /\ usersErr = ""
    /\ headers = << >>
    /\ NoWeb
    /\ notifyEvents = << >>

NextFilter ==
    \/ AnyFilter
    \/ AnyCondition
    \/ Filter

SpecFilter == InitFilter /\ [][NextFilter]_vars

----------------------------------------------------------------------------
(* PollUsers over any number of accounts: one cycle of Poll against a      *)
(* db.DB whose Users() returns several users.                              *)

\* The one event every account's listing holds: newer than the watermark,
\* and kept by the filters SQLDB.UsersFilters returns.
AccountEvent ==
    RawEvent(1, SQLUsersLastCreatedAt + 1,
             [Type |-> "IssuesEvent", Action |-> "opened", PayloadOK |-> TRUE])

\* The users table: n users, their EventNextPoll all zero or all later than
\* any time.Now() of the run.
UsersTable(n, nextPoll) ==
    [i \in 1..n |-> [ID |-> i, EventLastCreatedAt |-> SQLUsersLastCreatedAt,
                      EventNextPoll |-> nextPoll, FilterDefaultDiscard |-> FALSE]]

InitUsers ==
    /\ feed = << AccountEvent >>
    /\ now = MaxTicks - 1
    /\ cancelled = FALSE
    /\ pc = "Poll"
    /\ users = << >>
    /\ idx = 0
    /\ errorCount = 0
    /\ user = NoUser
    /\ filters = << >>
    /\ opt = 0
    /\ events = << >>
    /\ pollInterval = 0
    /\ notifyIdx = 0
    /\ result = ""
    /\ calls = << >>
    /\ notifyCount = [id \in 1..MaxFeed |-> 0]
    /\ \E n \in 0..MaxUsers : \E nextPoll \in {ZeroTime, MaxTicks + 1} :
          dbUsers = UsersTable(n, nextPoll)
    /\ polled = << >>
    /\ usersErr = ""
    /\ headers = << >>
    /\ NoWeb
    /\ notifyEvents = << >>

NextUsers ==
    \/ Tick
    \/ PollUser
    \/ ListPage
    \/ SetUsersPollResult
    \/ Filter
    \/ Notify
    \/ PollUsers
    \/ Poll

SpecUsers == InitUsers /\ [][NextUsers]_vars

----------------------------------------------------------------------------
(* Poll over several accounts with its context cancelled at any moment.    *)

NextCancel ==
    \/ NextUsers
    \/ Cancel
    \/ Done

SpecCancel == InitUsers /\ [][NextCancel]_vars

\* The steps the poller goroutine takes between two selects of Poll.
PollerStep ==
    \/ PollUser
    \/ ListPage
    \/ SetUsersPollResult
    \/ Filter
    \/ Notify
    \/ PollUsers
    \/ Poll

\* The goroutine running Poll keeps running and every call it makes
\* returns; a select with ctx.Done() ready chooses among its ready cases at
\* random, so that it cannot pass ctx.Done() by for ever.
SpecCancelFair == SpecCancel /\ WF_vars(PollerStep) /\ SF_vars(Done)

----------------------------------------------------------------------------
(* The first poll of an account: PollUser on a user whose                  *)
(* EventLastCreatedAt is zero, over any reverse-chronological listing.     *)

\* The listing the account holds before it is polled: each event created in
\* the second of the one listed before it or in the second before that,
\* down to the zero time (GetCreatedAt() of an event without created_at).
AnyOlderEvent ==
    /\ pc = "PollUser"
    /\ Len(feed) < MaxFeed
    /\ \E t \in 0..MaxTime :
          /\ feed # << >> => (t = feed[Len(feed)].CreatedAt
                                \/ t + 1 = feed[Len(feed)].CreatedAt)
          /\ feed' = Append(feed, RawEvent(Len(feed) + 1, t, [Type |-> "IssuesEvent",
                                            Action |-> "opened", PayloadOK |-> TRUE]))
    /\ UNCHANGED << now, cancelled >>
    /\ UNCHANGED << pollerVars, otherVars >>

InitFirstPoll ==
    /\ feed = << >>
    /\ now = 1
    /\ cancelled = FALSE
    /\ pc = "PollUser"
    /\ dbUsers = << [ID |-> 1, EventLastCreatedAt |-> ZeroTime,
                     EventNextPoll |-> ZeroTime, FilterDefaultDiscard |-> FALSE] >>
    /\ users = dbUsers
    /\ idx = 1
    /\ errorCount = 0
    /\ user = NoUser
    /\ filters = << >>
    /\ opt = 0
    /\ events = << >>
    /\ pollInterval = 0
    /\ notifyIdx = 0
    /\ result = ""
    /\ calls = << >>
    /\ notifyCount = [id \in 1..MaxFeed |-> 0]
    /\ polled = << >>
    /\ usersErr = ""
    /\ headers = << >>
    /\ NoWeb
    /\ notifyEvents = << >>

NextFirstPoll ==
    \/ AnyOlderEvent
    \/ PollUser
    \/ ListPage
    \/ SetUsersPollResult
    \/ Filter
    \/ Notify

SpecFirstPoll == InitFirstPoll /\ [][NextFirstPoll]_vars

----------------------------------------------------------------------------
(* ParseEvent alone: a listing of one event of any type.                   *)

\* Event types ParseEvent's switch fills the fields of, types whose case is
\* empty, and a type the switch has no case of.
SampleTypes ==
    { "CommitCommentEvent", "CreateEvent", "ForkEvent", "GollumEvent",
      "IssueCommentEvent", "IssuesEvent", "PullRequestEvent", "PushEvent",
      "DeleteEvent", "WatchEvent", "PullRequestReviewCommentEvent",
      "SponsorshipEvent" }

\* The events of those types: actor, repository, payload action and ref
\* present or absent, the other payload fields absent.
SampleEvents ==
    { [RawEvent(1, t, [Type |-> type, Action |-> action, PayloadOK |-> ok])
          EXCEPT !.Public = public, !.Actor = actor, !.Repo = repo, !.Ref = ref] :
        t \in {ZeroTime, MaxTime}, type \in SampleTypes,
        action \in {"", "created", "opened"}, ok \in BOOLEAN, public \in BOOLEAN,
        actor \in {"", "bradleyfalzon"}, repo \in {"", "golang/go"},
        ref \in {"", "master"} }

InitParse ==
    /\ \E raw \in SampleEvents : feed = << raw >>
    /\ now = 1
    /\ cancelled = FALSE
    /\ pc = "ListNewEvents"
    /\ user = [ID |-> 1, EventLastCreatedAt |-> ZeroTime, EventNextPoll |-> ZeroTime,
               FilterDefaultDiscard |-> FALSE]
    /\ users = << user >>
    /\ idx = 1
    /\ errorCount = 0
    /\ filters = << >>
    /\ opt = 1
    /\ events = << >>
    /\ pollInterval = 0
    /\ notifyIdx = 0
    /\ result = ""
    /\ calls = << >>
    /\ notifyCount = [id \in 1..MaxFeed |-> 0]
    /\ dbUsers = users
    /\ polled = << >>
    /\ usersErr = ""
    /\ headers = << >>
    /\ NoWeb
    /\ notifyEvents = << >>

NextParse == ListPage

SpecParse == InitParse /\ [][NextParse]_vars

----------------------------------------------------------------------------
(* The web console: login through GitHub and the pages behind it.          *)

ghOAuthStateKey == "ghOAuthState"

\* session.PutString, session.PutInt: the key holds the value from now on.
PutString(sess, key, val) == (key :> val) @@ sess

PutInt(sess, key, val) == (key :> val) @@ sess

\* session.PopString: the value of the key, "" when the session has none...
GetString(sess, key) == IF key \in DOMAIN sess THEN sess[key] ELSE ""

\* ... and the session without the key.
Remove(sess, key) == [k \in DOMAIN sess \ {key} |-> sess[k]]

\* session.Exists.
Exists(sess, key) == key \in DOMAIN sess

\* uuid.New().String(): a value no other request draws.
UUID(r) == ToString(r)

\* json.Marshal(token): the token's JSON text.
Marshal(token) == << "{\"access_token\":", ToString(token), "}" >>

\* SELECT id FROM users WHERE github_id = ?: the id of the first such row,
\* 0 for sql.ErrNoRows.
QueryRow(table, githubID) ==
    LET found == { i \in 1..Len(table) : table[i].github_id = githubID }
    IN  IF found = {} THEN 0 ELSE CHOOSE i \in found : \A j \in found : i <= j

\* INSERT INTO users on a table without the UNIQUE KEY on github_id.
InsertNoUniqueKey(table, githubID, jsonToken) ==
    [err |-> FALSE, id |-> Len(table) + 1,
     table |-> Append(table, [id |-> Len(table) + 1, github_id |-> githubID,
                              github_token |-> jsonToken])]

\* INSERT INTO users (..., github_id, ..., github_token): the row gets the
\* next id; UNIQUE KEY github_id refuses a second row of a github_id.
Insert(table, githubID, jsonToken) ==
    IF \E i \in 1..Len(table) : table[i].github_id = githubID
    THEN [err |-> TRUE, id |-> 0, table |-> table]
    ELSE [err |-> FALSE, id |-> Len(table) + 1,
          table |-> Append(table, [id |-> Len(table) + 1, github_id |-> githubID,
                                   github_token |-> jsonToken])]

\* UPDATE users SET ..., github_token = ? WHERE id = ?
Update(table, userID, jsonToken) ==
    [err |-> FALSE, id |-> userID,
     table |-> [i \in 1..Len(table) |->
                   IF table[i].id = userID
                   THEN [table[i] EXCEPT !.github_token = jsonToken]
                   ELSE table[i]]]

\* The handler writes its response and returns.
Respond(q, status, location) ==
    [q EXCEPT !.pc = "done", !.status = status, !.location = location]

\* The routes main mounts under /console, behind RequireLogin.
ConsolePaths == { "/console/", "/console/events" }

webUnchanged == << feed, now, cancelled, pollerVars, notifyEvents, sqlFilters,
                  sqlConditions >>

\* The server takes up request r: requests are numbered in the order in
\* which their handlers start.
Arrives(r) ==
    /\ reqs[r].pc = "idle"
    /\ \A k \in 1..(r - 1) : reqs[k].pc # "idle"

\* GET /login. Console.Login: a fresh state is put in the session and the
\* browser is sent to GitHub with it.
Login(r, s) ==
    /\ Arrives(r)
    /\ session' = [session EXCEPT ![s] = PutString(@, ghOAuthStateKey, UUID(r))]
    /\ reqs' = [reqs EXCEPT ![r] =
                   Respond([@ EXCEPT !.handler = "Login", !.sess = s,
                                     !.path = "/login"],
                           307, "AuthCodeURL")]
    /\ UNCHANGED << sqlUsers, webUnchanged >>

\* GET /login/callback. Console.LoginCallback up to its call of
\* db.GitHubLogin: the state is popped from the session and compared with
\* the form's, the code exchanged for a token (each exchange gives its own,
\* written r), the GitHub user fetched. failed names the call that fails.
LoginCallback(r, s) ==
    /\ Arrives(r)
    /\ \E formState \in {""} \cup { UUID(k) : k \in 1..MaxRequests },
          failed \in {"", "PopString", "Exchange", "Users.Get"},
          githubID \in 0..MaxGitHubID :
          LET sessionState == GetString(session[s], ghOAuthStateKey)
              q == [reqs[r] EXCEPT !.handler = "LoginCallback", !.sess = s,
                                   !.path = "/login/callback"]
          IN  /\ session' = IF failed = "PopString" THEN session
                            ELSE [session EXCEPT ![s] = Remove(@, ghOAuthStateKey)]
              /\ reqs' = [reqs EXCEPT ![r] =
                            IF failed = "PopString" THEN Respond(q, 500, "")
                            ELSE IF formState # sessionState THEN Respond(q, 400, "")
                            ELSE IF failed # "" THEN Respond(q, 500, "")
                            ELSE IF githubID = 0 THEN Respond(q, 500, "")
                            ELSE [q EXCEPT !.pc = "GitHubLogin", !.githubID = githubID,
                                           !.token = r]]
    /\ UNCHANGED << sqlUsers, webUnchanged >>

\* SQLDB.GitHubLogin, its first statement: does the user exist? An error
\* of the database other than sql.ErrNoRows is returned, and LoginCallback
\* answers it with 500.
GitHubLogin(r) ==
    /\ reqs[r].pc = "GitHubLogin"
    /\ \E dbErr \in BOOLEAN :
          reqs' = [reqs EXCEPT ![r] =
                      IF dbErr THEN Respond(@, 500, "")
                      ELSE [@ EXCEPT !.pc = "Exec",
                                     !.userID = QueryRow(sqlUsers, reqs[r].githubID)]]
    /\ UNCHANGED << sqlUsers, session, webUnchanged >>

\* SQLDB.GitHubLogin, its second statement: INSERT when the SELECT found no
\* row, UPDATE of the row found otherwise; then the rest of LoginCallback:
\* 500 on an error, else the user's ID is put in the session and the
\* browser sent to /console.
GitHubLoginExec(r) ==
    /\ reqs[r].pc = "Exec"
    /\ \E dbErr \in BOOLEAN :
          LET q == reqs[r]
              jsonToken == Marshal(q.token)
              res == IF q.userID = 0
                     THEN Insert(sqlUsers, q.githubID, jsonToken)
                     ELSE Update(sqlUsers, q.userID, jsonToken)
          IN  IF dbErr \/ res.err
              THEN /\ reqs' = [reqs EXCEPT ![r] = Respond([q EXCEPT !.userID = 0], 500, "")]
                   /\ UNCHANGED << sqlUsers, session >>
              ELSE /\ sqlUsers' = res.table
                   /\ session' = [session EXCEPT ![q.sess] = PutInt(@, "userID", res.id)]
                   /\ reqs' = [reqs EXCEPT ![r] =
                                  Respond([q EXCEPT !.userID = res.id], 303, "/console")]
    /\ UNCHANGED webUnchanged

\* next.ServeHTTP(w, r): the wrapped handler answers the request.
ServeHTTP(q) == Respond([q EXCEPT !.served = TRUE], 200, "")

\* RequireLogin going on to the wrapped handler after the redirect.
RequireLoginNoReturn(r, s, path) ==
    /\ Arrives(r)
    /\ \E err \in BOOLEAN :
          LET loggedIn == ~err /\ Exists(session[s], "userID")
              q == [reqs[r] EXCEPT !.handler = "RequireLogin", !.sess = s,
                                   !.path = path, !.loggedIn = loggedIn,
                                   !.err = err]
          IN  reqs' = [reqs EXCEPT ![r] =
                          IF err THEN Respond(q, 500, "")
                          ELSE ServeHTTP(q)]
    /\ UNCHANGED << sqlUsers, session, webUnchanged >>

\* A request of a route under /console. Console.RequireLogin: 500 when the
\* session cannot be read, a redirect to /login when it holds no userID,
\* the wrapped handler otherwise.
RequireLogin(r, s, path) ==
    /\ Arrives(r)
    /\ \E err \in BOOLEAN :
          LET loggedIn == ~err /\ Exists(session[s], "userID")
              q == [reqs[r] EXCEPT !.handler = "RequireLogin", !.sess = s,
                                   !.path = path, !.loggedIn = loggedIn,
                                   !.err = err]
          IN  reqs' = [reqs EXCEPT ![r] =
                          IF err THEN Respond(q, 500, "")
                          ELSE IF ~loggedIn THEN Respond(q, 302, "/login")
                          ELSE ServeHTTP(q)]
    /\ UNCHANGED << sqlUsers, session, webUnchanged >>

\* The web server alone, the poller not started.
InitWeb ==
    /\ feed = << >>
    /\ now = 0
    /\ cancelled = FALSE
    /\ pc = "Poll"
    /\ users = << >>
    /\ idx = 0
    /\ errorCount = 0
    /\ user = NoUser
    /\ filters = << >>
    /\ opt = 0
    /\ events = << >>
    /\ pollInterval = 0
    /\ notifyIdx = 0
    /\ result = ""
    /\ calls = << >>
    /\ notifyCount = [id \in 1..MaxFeed |-> 0]
    /\ dbUsers = SQLDBUsers
    /\ polled = << >>
    /\ usersErr = ""
    /\ headers = << >>
    /\ WebInit
    /\ notifyEvents = << >>

NextWeb ==
    \/ \E r \in 1..MaxRequests, s \in 1..MaxSessions : Login(r, s)
    \/ \E r \in 1..MaxRequests, s \in 1..MaxSessions : LoginCallback(r, s)
    \/ \E r \in 1..MaxRequests : GitHubLogin(r)
    \/ \E r \in 1..MaxRequests : GitHubLoginExec(r)
    \/ \E r \in 1..MaxRequests, s \in 1..MaxSessions, path \in ConsolePaths :
          RequireLogin(r, s, path)

SpecWeb == InitWeb /\ [][NextWeb]_vars

----------------------------------------------------------------------------
(* The console's pages of one filter: Filter, FilterUpdate and             *)
(* ConditionCreate, each behind RequireLogin.                              *)

\* c.db.Filter(ctx, filterID): the filter of the row with that id, nil when
\* there is none.
dbFilter(table, filterID) ==
    IF filterID \in 1..Len(table)
    THEN [ID |-> table[filterID].id, UserID |-> table[filterID].user_id,
          OnMatchDiscard |-> table[filterID].on_match_discard]
    ELSE NoFilter

\* c.db.FilterUpdate(ctx, filter): the row of filter.ID takes the filter's
\* values.
dbFilterUpdate(table, filter) ==
    [i \in 1..Len(table) |->
        IF table[i].id = filter.ID
        THEN [id |-> filter.ID, user_id |-> filter.UserID,
              on_match_discard |-> filter.OnMatchDiscard]
        ELSE table[i]]

\* c.db.ConditionCreate(ctx, condition): a new row with the next id.
dbConditionCreate(table, condition) ==
    [id |-> Len(table) + 1,
     table |-> Append(table, [id |-> Len(table) + 1,
                              filter_id |-> condition.FilterID,
                              negate |-> condition.Negate,
                              type |-> condition.Type])]

\* strconv.ParseBool, as the form decoder converts a bool field.
ParseBool(str) ==
    IF str \in {"1", "t", "T", "TRUE", "true", "True"} THEN [err |-> FALSE, b |-> TRUE]
    ELSE IF str \in {"0", "f", "F", "FALSE", "false", "False"} THEN [err |-> FALSE, b |-> FALSE]
    ELSE [err |-> TRUE, b |-> FALSE]

\* The form of ConditionCreate: "Negate" and the field the request names.
\* The later entry of the map literal replaces an earlier one of its key.
PostForm(negate, field, value) == (field :> value) @@ ("Negate" :> negate)

\* decoder.Decode(condition, postForm): each key sets the field of its
\* name, converted to the field's type; a key that names no field and a
\* value that does not convert are errors.
Decode(condition, postForm) ==
    LET keys == DOMAIN postForm
        neg == IF "Negate" \in keys THEN ParseBool(postForm["Negate"])
               ELSE [err |-> FALSE, b |-> condition.Negate]
        fid == IF "FilterID" \in keys THEN ParseInt(postForm["FilterID"])
               ELSE [err |-> FALSE, n |-> condition.FilterID]
        typ == IF "Type" \in keys THEN postForm["Type"] ELSE condition.Type
    IN  IF keys \subseteq {"Negate", "FilterID", "Type"} /\ ~neg.err /\ ~fid.err
        THEN [err |-> FALSE,
              condition |-> [condition EXCEPT !.Negate = neg.b, !.FilterID = fid.n,
                                              !.Type = typ]]
        ELSE [err |-> TRUE, condition |-> condition]

\* OwnFilter without the comparison of filter.UserID with userID.
OwnFilterOfAnyUser(q, sess, table, param, failed, notOwn) ==
    IF failed = "Exists" THEN Respond(q, 500, "")
    ELSE IF ~Exists(sess, "userID") THEN Respond(q, 302, "/login")
    ELSE IF failed = "GetInt" THEN Respond(q, 500, "")
    ELSE LET userID == sess["userID"]
             filterID == ParseInt(param)
             filter == dbFilter(table, filterID.n)
         IN  IF filterID.err THEN Respond(q, 500, "")
             ELSE IF failed = "db.Filter" THEN Respond(q, 500, "")
             ELSE IF filter = NoFilter THEN Respond(q, notOwn, "")
             ELSE [q EXCEPT !.loggedIn = TRUE, !.userID = userID,
                            !.filterID = filterID.n, !.filter = filter]

\* What the three handlers begin with, after RequireLogin has let the
\* request through: userID from the session, filterID parsed from param,
\* the filter loaded, and the status notOwn unless the filter is there and
\* filter.UserID is userID. The request comes back answered, or with
\* userID, filterID and filter set (the record of an answered request
\* keeps none of them). failed names the call that fails.
OwnFilter(q, sess, table, param, failed, notOwn) ==
    IF failed = "Exists" THEN Respond(q, 500, "")
    ELSE IF ~Exists(sess, "userID") THEN Respond(q, 302, "/login")
    ELSE IF failed = "GetInt" THEN Respond(q, 500, "")
    ELSE LET userID == sess["userID"]
             filterID == ParseInt(param)
             filter == dbFilter(table, filterID.n)
         IN  IF filterID.err THEN Respond(q, 500, "")
             ELSE IF failed = "db.Filter" THEN Respond(q, 500, "")
             ELSE IF filter = NoFilter THEN Respond(q, notOwn, "")
             ELSE IF filter.UserID # userID THEN Respond(q, notOwn, "")
             ELSE [q EXCEPT !.loggedIn = TRUE, !.userID = userID,
                            !.filterID = filterID.n, !.filter = filter]

\* The calls of the handlers' first part that can fail.
OwnFilterFailures == {"", "Exists", "GetInt", "db.Filter"}

\* The texts a request gives for a filterID: the id of a filter, of none,
\* and a text that is no number.
FilterIDTexts == { FormatInt(n) : n \in 1..(MaxFilters + 1) } \cup { << "x" >> }

\* The field and value a ConditionCreate request names: a field of the
\* condition with a value, the FilterID with each text, and no field.
FormValues ==
    { << "Type", << "x" >> >>, << "Bogus", << "x" >> >> }
       \cup { << "FilterID", v >> : v \in FilterIDTexts }

consoleUnchanged == << feed, now, cancelled, pollerVars, notifyEvents, sqlUsers,
                      session >>

\* GET /console/filters/{filterID}. Console.Filter: the filter is rendered
\* when it is the user's.
ConsoleFilter(r, s) ==
    /\ Arrives(r)
    /\ \E param \in FilterIDTexts, failed \in OwnFilterFailures :
          LET q == OwnFilter([reqs[r] EXCEPT !.handler = "Filter", !.sess = s,
                                             !.path = "/console/filters/{filterID}"],
                             session[s], sqlFilters, param, failed, 404)
          IN  reqs' = [reqs EXCEPT ![r] =
                          IF q.pc = "done" THEN q
                          ELSE Respond([q EXCEPT !.page = q.filter], 200, "")]
    /\ UNCHANGED << sqlFilters, sqlConditions, consoleUnchanged >>

\* POST /console/filters/{filterID}. Console.FilterUpdate up to its call of
\* db.FilterUpdate: the filter loaded takes OnMatchDiscard from the form.
ConsoleFilterUpdate(r, s) ==
    /\ Arrives(r)
    /\ \E param \in FilterIDTexts, failed \in OwnFilterFailures,
          onmatchdiscard \in {"true", ""} :
          LET q == OwnFilter([reqs[r] EXCEPT !.handler = "FilterUpdate", !.sess = s,
                                             !.path = "/console/filters/{filterID}"],
                             session[s], sqlFilters, param, failed, 404)
          IN  reqs' = [reqs EXCEPT ![r] =
                          IF q.pc = "done" THEN q
                          ELSE [q EXCEPT !.pc = "db.FilterUpdate",
                                         !.filter.OnMatchDiscard =
                                             (onmatchdiscard = "true")]]
    /\ UNCHANGED << sqlFilters, sqlConditions, consoleUnchanged >>

\* Console.FilterUpdate, its call of db.FilterUpdate and the rest: 500 on
\* an error, else the browser is sent back to the referer.
FilterUpdateExec(r) ==
    /\ reqs[r].pc = "db.FilterUpdate"
    /\ \E dbErr \in BOOLEAN :
          IF dbErr
          THEN /\ reqs' = [reqs EXCEPT ![r] = Respond(@, 500, "")]
               /\ UNCHANGED sqlFilters
          ELSE /\ sqlFilters' = dbFilterUpdate(sqlFilters, reqs[r].filter)
               /\ reqs' = [reqs EXCEPT ![r] = Respond(@, 302, "referer")]
    /\ UNCHANGED << sqlConditions, consoleUnchanged >>

\* POST /console/conditions/. Console.ConditionCreate up to its call of
\* db.ConditionCreate: the filter of the form's filterID must be the
\* user's; the form is decoded into a condition, and the condition's
\* FilterID is set to the filterID that was checked.
ConsoleConditionCreate(r, s) ==
    /\ Arrives(r)
    /\ \E param \in FilterIDTexts, failed \in OwnFilterFailures,
          negate \in {"true", "x"}, fv \in FormValues :
          LET field == fv[1]
              value == fv[2]
              q0 == [reqs[r] EXCEPT !.handler = "ConditionCreate", !.sess = s,
                                    !.path = "/console/conditions/"]
              q == OwnFilter(q0, session[s], sqlFilters, param, failed, 400)
              d == Decode(NoCondition, PostForm(negate, field, value))
          IN  reqs' = [reqs EXCEPT ![r] =
                          IF q.pc = "done" THEN q
                          ELSE IF d.err THEN Respond(q0, 500, "")
                          ELSE [q EXCEPT !.pc = "db.ConditionCreate",
                                         !.field = field, !.value = value,
                                         !.condition =
                                             [d.condition EXCEPT !.FilterID = q.filterID]]]
    /\ UNCHANGED << sqlFilters, sqlConditions, consoleUnchanged >>

\* Console.ConditionCreate, its call of db.ConditionCreate and the rest.
ConditionCreateExec(r) ==
    /\ reqs[r].pc = "db.ConditionCreate"
    /\ \E dbErr \in BOOLEAN :
          LET res == dbConditionCreate(sqlConditions, reqs[r].condition)
          IN  IF dbErr
              THEN /\ reqs' = [reqs EXCEPT ![r] = Respond(@, 500, "")]
                   /\ UNCHANGED sqlConditions
              ELSE /\ sqlConditions' = res.table
                   /\ reqs' = [reqs EXCEPT ![r] =
                                  Respond([@ EXCEPT !.conditionID = res.id],
                                          302, "referer")]
    /\ UNCHANGED << sqlFilters, consoleUnchanged >>

\* The user a session or a filter of a number belongs to, when there are
\* more of them than users.
UserOf(i) == ((i - 1) % MaxGitHubID) + 1

\* The console in use: every GitHub user has logged in, every session is
\* that of a user, and the users have filters.
InitConsole ==
    /\ feed = << >>
    /\ now = 0
    /\ cancelled = FALSE
    /\ pc = "Poll"
    /\ users = << >>
    /\ idx = 0
    /\ errorCount = 0
    /\ user = NoUser
    /\ filters = << >>
    /\ opt = 0
    /\ events = << >>
    /\ pollInterval = 0
    /\ notifyIdx = 0
    /\ result = ""
    /\ calls = << >>
    /\ notifyCount = [id \in 1..MaxFeed |-> 0]
    /\ dbUsers = SQLDBUsers
    /\ polled = << >>
    /\ usersErr = ""
    /\ headers = << >>
    /\ notifyEvents = << >>
    /\ sqlUsers = [g \in 1..MaxGitHubID |->
                      [id |-> g, github_id |-> g, github_token |-> Marshal(g)]]
    /\ session = [s \in 1..MaxSessions |-> PutInt(<< >>, "userID", UserOf(s))]
    /\ reqs = [r \in 1..MaxRequests |-> NoRequest]
    /\ sqlFilters = [i \in 1..MaxFilters |->
                        [id |-> i, user_id |-> UserOf(i), on_match_discard |-> FALSE]]
    /\ sqlConditions = << >>

\* The sessions the console's requests come in: those of two users.
ConsoleSessions == {1, MaxSessions}

NextConsole ==
    \/ \E r \in 1..MaxRequests, s \in ConsoleSessions : ConsoleFilter(r, s)
    \/ \E r \in 1..MaxRequests, s \in ConsoleSessions : ConsoleFilterUpdate(r, s)
    \/ \E r \in 1..MaxRequests : FilterUpdateExec(r)
    \/ \E r \in 1..MaxRequests, s \in ConsoleSessions : ConsoleConditionCreate(r, s)
    \/ \E r \in 1..MaxRequests : ConditionCreateExec(r)

SpecConsole == InitConsole /\ [][NextConsole]_vars

----------------------------------------------------------------------------
(* poller/poller.go: PollUser from the return of listNewEvents on.  Here   *)
(* events is newEvents, the github events as fetched, and calls, result    *)
(* and notifyIdx are used as in the PollUser above.                        *)

RECURSIVE Cap(_)
\* cap(events) once listNewEvents has appended n events, one at a time, to
\* its nil result: append doubles the capacity of a full small slice.
Cap(n) ==
    IF n = 0 THEN 0
    ELSE LET c == Cap(n - 1)
         IN  IF n <= c THEN c ELSE IF c = 0 THEN 1 ELSE 2 * c

\* The 5 of newEvents[:5].
CopyLimit == 5

\* filter.Matches(event) of some filter of the account.
AnyFilterMatches(fs, raw) == \E i \in 1..Len(fs) : FilterMatches(fs[i], raw)

\* PollUser: if len(newEvents) > 0, p.db.SetUsersPollResult(user.ID,
\* newEvents[0].GetCreatedAt(), time.Now().Add(pollInterval)).
MarkRead ==
    /\ pc = "MarkRead"
    /\ IF Len(events) > 0
       THEN \E err \in BOOLEAN :
               /\ calls' = Append(calls, [op |-> "SetUsersPollResult",
                                          userID |-> user.ID,
                                          lastCreatedAt |-> events[1].CreatedAt,
                                          nextPoll |-> NextPoll(now, pollInterval),
                                          err |-> err])
               /\ pc' = IF err THEN "return" ELSE "CopyMatched"
               /\ result' = IF err THEN "SetUsersPollResult" ELSE result
       ELSE /\ pc' = "CopyMatched"
            /\ UNCHANGED << calls, result >>
    /\ UNCHANGED << feed, now, cancelled, users, idx, errorCount, user, filters,
                    opt, events, pollInterval, notifyIdx, notifyCount, dbUsers,
                    polled, usersErr, headers, webVars, notifyEvents >>

\* PollUser: the loop over newEvents[:5] that appends to notifyEvents each
\* event some filter matches. The slice expression panics when 5 is more
\* than cap(newEvents).
CopyMatched ==
    /\ pc = "CopyMatched"
    /\ IF CopyLimit > Cap(Len(events))
       THEN /\ pc' = "panic"
            /\ UNCHANGED << notifyEvents, notifyIdx >>
       ELSE /\ notifyEvents' = SelectSeq(SubSeq(events, 1, CopyLimit),
                                         LAMBDA e : AnyFilterMatches(filters, e))
            /\ notifyIdx' = 1
            /\ pc' = "SendNotifications"
    /\ UNCHANGED << feed, now, cancelled, users, idx, errorCount, user, filters,
                    opt, events, pollInterval, result, calls, notifyCount,
                    dbUsers, polled, usersErr, headers, webVars >>

\* PollUser: one turn of the loop over notifyEvents, p.notifier.Notify(event),
\* and the return after it.
SendNotifications ==
    /\ pc = "SendNotifications"
    /\ IF notifyIdx > Len(notifyEvents)
       THEN /\ pc' = "return"
            /\ UNCHANGED << calls, notifyIdx, result >>
       ELSE \E err \in BOOLEAN :
               /\ calls' = Append(calls, [op |-> "Notify",
                                          id |-> notifyEvents[notifyIdx].ID,
                                          err |-> err])
               /\ pc' = IF err THEN "return" ELSE pc
               /\ result' = IF err THEN "Notify" ELSE result
               /\ notifyIdx' = IF err THEN notifyIdx ELSE notifyIdx + 1
    /\ UNCHANGED << feed, now, cancelled, users, idx, errorCount, user, filters,
                    opt, events, pollInterval, notifyCount, dbUsers, polled,
                    usersErr, headers, webVars, notifyEvents >>

\* The kinds of event and the rule sets the loop is tried on.
SampleKinds ==
    { [Type |-> "IssuesEvent", Action |-> "opened", PayloadOK |-> TRUE],
      [Type |-> "PushEvent", Action |-> "", PayloadOK |-> TRUE] }

SampleFilters ==
    { << >>,
      << [Conditions |-> << >>, OnMatchDiscard |-> FALSE] >>,
      << [Conditions |-> << Condition(FALSE, "IssuesEvent", "", 0) >>,
          OnMatchDiscard |-> FALSE] >> }

\* listNewEvents has returned any number of events newer than the
\* account's watermark, and a poll interval.
InitCopyMatched ==
    /\ feed = << >>
    /\ now = 1
    /\ cancelled = FALSE
    /\ pc = "MarkRead"
    /\ user = [ID |-> 1, EventLastCreatedAt |-> FirstPollEpoch,
               EventNextPoll |-> ZeroTime, FilterDefaultDiscard |-> FALSE]
    /\ users = << user >>
    /\ idx = 1
    /\ errorCount = 0
    /\ filters \in SampleFilters
    /\ opt = 1
    /\ \E n \in 0..MaxNewEvents :
          \E kinds \in [1..n -> SampleKinds] :
             events = [i \in 1..n |-> RawEvent(i, MaxTime, kinds[i])]
    /\ pollInterval = 1
    /\ notifyIdx = 0
    /\ result = ""
    /\ calls = << >>
    /\ notifyCount = [id \in 1..MaxFeed |-> 0]
    /\ dbUsers = users
    /\ polled = << >>
    /\ usersErr = ""
    /\ headers = << >>
    /\ NoWeb
    /\ notifyEvents = << >>

NextCopyMatched ==
    \/ MarkRead
    \/ CopyMatched
    \/ SendNotifications

SpecCopyMatched == InitCopyMatched /\ [][NextCopyMatched]_vars

----------------------------------------------------------------------------
(* Claims.                                                                 *)

\* The calls of the current PollUser that write the poll result.
IsWrite(c) == c.op = "SetUsersPollResult"

IsNotify(c) == c.op = "Notify"

\* C1: across any sequence of poll cycles no event is passed to
\* Notifier.Notify more than once.
C1_NoEventNotifiedTwice ==
    \A id \in 1..MaxFeed : notifyCount[id] <= 1

\* C2: with a non-zero watermark w, every event ListNewEvents returns has
\* createdAt strictly greater than w, whatever the pages hold.
C2_ReturnedEventsAfterWatermark ==
    (pc \in {"SetUsersPollResult", "Filter"} /\ user.EventLastCreatedAt # ZeroTime)
        => \A i \in 1..Len(events) : events[i].CreatedAt > user.EventLastCreatedAt

\* C2 witness: a fetch has returned events from a listing that also holds
\* an event created exactly at the non-zero watermark.
C2_Witness ==
    /\ pc = "SetUsersPollResult"
    /\ user.EventLastCreatedAt # ZeroTime
    /\ Len(events) > 0
    /\ \E i \in 1..Len(feed) : feed[i].CreatedAt = user.EventLastCreatedAt

\* C3: every watermark a cycle writes with SetUsersPollResult is at least
\* the watermark the cycle read from db.Users().
C3_WatermarkNeverDecreases ==
    \A i \in 1..Len(calls) :
        IsWrite(calls[i]) => calls[i].lastCreatedAt >= users[idx].EventLastCreatedAt

\* C3 witness: a cycle has written a watermark, with events at or below
\* the one it read on the feed.
C3_Witness ==
    /\ \E i \in 1..Len(calls) : IsWrite(calls[i]) /\ ~calls[i].err
    /\ \E i \in 1..Len(feed) : feed[i].CreatedAt <= SQLUsersLastCreatedAt

\* The newest createdAt among es.
MaxCreatedAt(es) ==
    CHOOSE m \in {es[i].CreatedAt : i \in 1..Len(es)} :
        \A i \in 1..Len(es) : es[i].CreatedAt <= m

\* The feed T0+3, T0+2, T0+1, T0 for the watermark T0 that SQLDB.Users gives.
IsScenarioFeed ==
    /\ Len(feed) = 4
    /\ \A i \in 1..4 : feed[i].CreatedAt = SQLUsersLastCreatedAt + 4 - i

\* C4: after a successful fetch of at least one event, the watermark
\* PollUser has written is the maximum createdAt of the fetched events;
\* of the feed T0+3, T0+2, T0+1, T0 polled with watermark T0, exactly the
\* three newer events are fetched and T0+3 is written.
C4_WatermarkIsNewestFetched ==
    /\ (pc \in {"Filter", "Notify"} /\ Len(events) > 0)
           => /\ IsWrite(calls[1]) /\ ~calls[1].err
              /\ calls[1].lastCreatedAt = MaxCreatedAt(events)
    /\ (pc \in {"Filter", "Notify"} /\ IsScenarioFeed)
           => /\ Len(events) = 3
              /\ \A i \in 1..3 : events[i].RawEvent = feed[i]
              /\ calls[1].lastCreatedAt = SQLUsersLastCreatedAt + 3

\* C4 witness: the feed T0+3, T0+2, T0+1, T0 polled with watermark T0: the
\* three newer events are fetched and T0+3 is written.
C4_Witness ==
    /\ pc = "Filter"
    /\ IsScenarioFeed
    /\ Len(events) = 3
    /\ \A i \in 1..3 : events[i].RawEvent = feed[i]
    /\ calls[1].lastCreatedAt = SQLUsersLastCreatedAt + 3

\* C5: within a cycle, the write of the watermark and next poll time has
\* completed before the first Notify call.
C5_WriteBeforeNotify ==
    \A i \in 1..Len(calls) :
        IsNotify(calls[i]) => \E j \in 1..(i - 1) : IsWrite(calls[j]) /\ ~calls[j].err

\* C5 witness: an event has been passed to the Notifier.
C5_Witness ==
    \E i \in 1..Len(calls) : IsNotify(calls[i])

\* C6: when SetUsersPollResult fails, PollUser returns that error, and
\* neither Events.Filter nor Notify runs in that cycle.
C6_WriteErrorStopsCycle ==
    \A i \in 1..Len(calls) :
        (IsWrite(calls[i]) /\ calls[i].err)
            => /\ i = Len(calls)
               /\ pc = "PollUsers"
               /\ result = "SetUsersPollResult"

\* C6 witness: SetUsersPollResult has failed with several events fetched.
C6_Witness ==
    /\ \E i \in 1..Len(calls) : IsWrite(calls[i]) /\ calls[i].err
    /\ Len(feed) > 1

\* C7: the verdict of an event is the OnMatchDiscard of the earliest
\* filter whose conditions all match, whatever later filters match.
C7_FirstMatchWins ==
    pc = "Notify" =>
        \A k \in 1..Len(events) : \A i \in 1..Len(filters) :
            ( /\ FilterMatches(filters[i], events[k].RawEvent)
              /\ \A j \in 1..(i - 1) : ~FilterMatches(filters[j], events[k].RawEvent) )
                => events[k].Discarded = filters[i].OnMatchDiscard

\* C7 witness: filter A (IssuesEvent/opened, keep) before the catch-all
\* filter B (discard) has kept an opened IssuesEvent.
C7_Witness ==
    /\ pc = "Notify"
    /\ filters = << [Conditions |-> << Condition(FALSE, "IssuesEvent", "opened", 0) >>,
                     OnMatchDiscard |-> FALSE],
                    [Conditions |-> << >>, OnMatchDiscard |-> TRUE] >>
    /\ events[1].Type = "IssuesEvent" /\ events[1].RawEvent.Action = "opened"
    /\ ~events[1].Discarded

\* C8: an event no filter matches gets the account's defaultDiscard as
\* its verdict, for both values of defaultDiscard.
C8_NoMatchUsesDefault ==
    pc = "Notify" =>
        \A k \in 1..Len(events) :
            (\A i \in 1..Len(filters) : ~FilterMatches(filters[i], events[k].RawEvent))
                => events[k].Discarded = user.FilterDefaultDiscard

\* Every condition of f holds of raw, each one's own matcher result
\* inverted by its own Negate.
EachConditionHolds(f, raw) ==
    \A i \in 1..Len(f.Conditions) :
        ConditionMatchers(f.Conditions[i], raw) # f.Conditions[i].Negate

\* C9: Negate inverts the matcher result of its own condition only: the
\* first filter decides the verdict when each of its conditions holds, and
\* a lone keep-filter keeps an event exactly when each condition holds.
C9_NegatePerCondition ==
    (pc = "Notify" /\ Len(filters) > 0) =>
        LET f == filters[1]
            e == events[1]
        IN  /\ EachConditionHolds(f, e.RawEvent) => e.Discarded = f.OnMatchDiscard
            /\ (Len(filters) = 1 /\ ~f.OnMatchDiscard)
                   => (~e.Discarded <=> EachConditionHolds(f, e.RawEvent))

\* C9 witness: a lone keep-filter of two conditions, one of them negated,
\* has kept an event.
C9_Witness ==
    /\ pc = "Notify"
    /\ Len(filters) = 1
    /\ ~filters[1].OnMatchDiscard
    /\ Len(filters[1].Conditions) = 2
    /\ filters[1].Conditions[1].Negate # filters[1].Conditions[2].Negate
    /\ ~events[1].Discarded

\* A condition with no matcher set.
IsWildcard(c) == c.Type = "" /\ c.PayloadAction = "" /\ c.Public = 0

\* The condition read with every empty matcher as a wildcard.
HoldsWithWildcards(c, raw) ==
    ( /\ (c.Type = "" \/ c.Type = raw.Type)
      /\ (c.PayloadAction = "" \/ c.PayloadAction = raw.Action)
      /\ (c.Public = 0 \/ (c.Public = 1) = raw.Public) ) # c.Negate

\* C10: a filter matches iff all of its conditions match, an empty matcher
\* being a wildcard: a first filter with no conditions, or with only
\* matcher-less conditions that are not negated, decides every event.
C10_EmptyMatcherIsWildcard ==
    (pc = "Notify" /\ Len(filters) > 0) =>
        LET f == filters[1]
            e == events[1]
        IN  /\ (\A i \in 1..Len(f.Conditions) :
                    IsWildcard(f.Conditions[i]) /\ ~f.Conditions[i].Negate)
                   => e.Discarded = f.OnMatchDiscard
            /\ (Len(filters) = 1 /\ ~f.OnMatchDiscard)
                   => (~e.Discarded <=>
                          \A i \in 1..Len(f.Conditions) :
                              HoldsWithWildcards(f.Conditions[i], e.RawEvent))

\* C10 witness: a lone keep-filter whose one condition sets the type and
\* leaves the payload action empty has kept an event of that type.
C10_Witness ==
    /\ pc = "Notify"
    /\ Len(filters) = 1
    /\ ~filters[1].OnMatchDiscard
    /\ Len(filters[1].Conditions) = 1
    /\ ~filters[1].Conditions[1].Negate
    /\ filters[1].Conditions[1].Type = "IssuesEvent"
    /\ filters[1].Conditions[1].PayloadAction = ""
    /\ events[1].RawEvent.Action # ""
    /\ ~events[1].Discarded

\* The verdict of e is keep.
Kept(e) == ~e.Discarded

\* The event ids the Notify calls among cs were given, in call order.
NotifiedIDs(cs) ==
    LET ns == SelectSeq(cs, IsNotify) IN [i \in 1..Len(ns) |-> ns[i].id]

\* The ids of the kept events among es, in order.
KeptIDs(es) ==
    LET ks == SelectSeq(es, Kept) IN [i \in 1..Len(ks) |-> ks[i].RawEvent.ID]

\* C11: in an account's cycle the events passed to Notify are exactly the
\* kept events among those the notification loop has gone through, in
\* fetch order and once each; a discarded event is never passed.
C11_NotifiedAreTheKeptInOrder ==
    pc = "Notify" =>
        NotifiedIDs(calls) = KeptIDs(SubSeq(events, 1, notifyIdx - 1))

\* C11 witness: the loop has gone through all of three fetched events, a
\* discarded one between two kept ones, and both kept ones were notified.
C11_Witness ==
    /\ pc = "Notify"
    /\ Len(events) = 3
    /\ notifyIdx = 4
    /\ Kept(events[1]) /\ ~Kept(events[2]) /\ Kept(events[3])
    /\ NotifiedIDs(calls) = << events[1].RawEvent.ID, events[3].RawEvent.ID >>

\* The number of failed polls among ps.
Failures(ps) == Cardinality({i \in 1..Len(ps) : ps[i].failed})

\* The users polled so far are the first users of the list, once each and
\* in the list's order.
PolledInOrder == \A i \in 1..Len(polled) : polled[i].id = users[i].ID

\* C12: a failed PollUser does not end PollUsers: the failure adds one to
\* errorCount, and while no more than 5 polls have failed PollUsers goes on
\* to every user of the list and returns nil.
C12_FailureDoesNotStopCycle ==
    /\ (pc \in {"PollUser", "PollUsersReturned"} /\ usersErr # "Users")
           => errorCount = Failures(polled)
    /\ (pc = "PollUsersReturned" /\ usersErr # "Users"
            /\ Failures(polled) <= MaxErrorCount)
           => /\ Len(polled) = Len(users)
              /\ PolledInOrder
              /\ usersErr = ""

\* C12 witness: of 6 users the third alone failed, and all 6 were polled.
C12_Witness ==
    /\ pc = "PollUsersReturned"
    /\ Len(users) = 6
    /\ Len(polled) = 6
    /\ \A i \in 1..6 : polled[i].id = i /\ (polled[i].failed <=> i = 3)
    /\ errorCount = 1

\* C13: PollUsers returns a non-nil error exactly when errorCount exceeds
\* 5, which it does at the sixth failed poll, and no user is polled after
\* that; with 5 or fewer failed polls every user is polled.
C13_AbortsWhenCountExceedsFive ==
    /\ (pc \in {"PollUser", "ListNewEvents", "SetUsersPollResult", "Filter",
                 "Notify", "PollUsers"})
           => Failures(polled) <= MaxErrorCount
    /\ (pc = "PollUsersReturned" /\ usersErr # "Users")
           => /\ (usersErr # "" <=> Failures(polled) > MaxErrorCount)
              /\ (usersErr # "" => /\ usersErr = "too many errors"
                                    /\ Failures(polled) = MaxErrorCount + 1
                                    /\ polled[Len(polled)].failed
                                    /\ PolledInOrder)
              /\ (usersErr = "" => Len(polled) = Len(users))

\* C13 witness: PollUsers has given up at the sixth of 7 users, the
\* seventh not polled.
C13_Witness ==
    /\ pc = "PollUsersReturned"
    /\ usersErr = "too many errors"
    /\ Len(users) = 7
    /\ Len(polled) = 6

\* C14: PollUsers gives up only after more than 5 polls in a row have
\* failed, a successful poll in between starting the count again.
C14_AbortOnlyOnConsecutiveErrors ==
    (pc = "PollUsersReturned" /\ usersErr = "too many errors")
        => /\ Len(polled) > MaxErrorCount
           /\ \A i \in (Len(polled) - MaxErrorCount)..Len(polled) : polled[i].failed

\* The errors ListNewEvents returns.
FetchErrors == {"ListEventsReceivedByUser", "X-Poll-Interval", "ParseEvent"}

\* The watermark PollUser fetches the current user's events with.
FetchBoundary == FirstPollSubstitute(users[idx]).EventLastCreatedAt

\* Scanning the listing from its head, ListNewEvents meets a payload that
\* does not decode before it meets an event it has observed.
UndecodableAhead ==
    \E i \in 1..Len(feed) :
        /\ ~feed[i].PayloadOK
        /\ \A j \in 1..i : ~haveObserved(FetchBoundary, feed[j].CreatedAt)

\* C15: when the fetch fails (transport error, unparsable X-Poll-Interval,
\* or a payload that does not decode, on whatever page), ListNewEvents
\* returns no events and the cycle neither writes the poll result nor
\* notifies: a listing with an undecodable new event never gets past the
\* fetch.
C15_FetchFailureWritesNothing ==
    /\ (pc = "PollUsers" /\ result \in FetchErrors)
           => calls = << >> /\ events = << >>
    /\ (pc \in {"ListNewEvents", "SetUsersPollResult", "Filter", "Notify", "PollUsers"}
            /\ UndecodableAhead)
           => /\ calls = << >>
              /\ pc \in {"ListNewEvents", "PollUsers"}
              /\ pc = "PollUsers" => result # ""

\* C15 witness: the fetch has failed on a payload of the second page, after
\* a first page of new events that all decoded.
C15_Witness ==
    /\ pc = "PollUsers"
    /\ result = "ParseEvent"
    /\ \E i \in (PerPage + 1)..Len(feed) :
          /\ ~feed[i].PayloadOK
          /\ \A j \in 1..(i - 1) : feed[j].PayloadOK
          /\ \A j \in 1..i : feed[j].CreatedAt > users[idx].EventLastCreatedAt

\* C16: when Notify returns an error, it is the last call of the cycle (no
\* later event is notified), PollUser returns that error, and the one
\* write of the poll result made earlier in the cycle is followed by no
\* other write.
C16_NotifyErrorStopsNotifying ==
    \A i \in 1..Len(calls) :
        (IsNotify(calls[i]) /\ calls[i].err)
            => /\ i = Len(calls)
               /\ pc = "PollUsers"
               /\ result = "Notify"
               /\ IsWrite(calls[1]) /\ ~calls[1].err
               /\ \A j \in 2..Len(calls) : ~IsWrite(calls[j])

\* C16 witness: Notify has failed on the first of several kept events.
C16_Witness ==
    /\ Len(calls) = 3
    /\ IsNotify(calls[3]) /\ calls[3].err
    /\ Len(feed) > 1
    /\ \A i \in 1..Len(feed) :
          /\ feed[i].Type = "IssuesEvent"
          /\ feed[i].CreatedAt > SQLUsersLastCreatedAt

\* The number of pages the remote serves of a listing.
NumPages(listing) ==
    IF Len(listing) = 0 THEN 1 ELSE (Len(listing) + PerPage - 1) \div PerPage

\* An event ListNewEvents has observed lies on page p of the listing.
ObservedOnPage(p) ==
    \E i \in 1..Len(PageOf(feed, p)) :
        haveObserved(user.EventLastCreatedAt, PageOf(feed, p)[i].CreatedAt)

\* An iteration of ListNewEvents that stays in the loop moves to a later
\* page of the listing.
NextIterationAdvances ==
    (pc = "ListNewEvents" /\ pc' = "ListNewEvents" /\ feed' = feed)
        => (opt' > opt /\ opt' <= NumPages(feed))

\* ListNewEvents returns its events only at an observed event or after the
\* page whose NextPage is 0.
StopsAtBoundaryOrLastPage ==
    (pc = "ListNewEvents" /\ pc' \in {"SetUsersPollResult", "Filter"})
        => (ObservedOnPage(opt) \/ NextPage(feed, opt) = 0)

\* C17: over a finite listing ListNewEvents terminates: every iteration
\* that does not return moves to a later page of the finitely many, it
\* returns its events only at the first observed event or after the page
\* with NextPage = 0, and it does return.
C17_ListNewEventsTerminates ==
    /\ [][NextIterationAdvances /\ StopsAtBoundaryOrLastPage]_vars
    /\ <>(pc # "ListNewEvents")

\* C17 witness: ListNewEvents has returned after the last of several pages,
\* none of whose events it had observed.
C17_Witness ==
    /\ pc = "SetUsersPollResult"
    /\ opt > 1
    /\ opt = NumPages(feed)
    /\ Len(events) = Len(feed)

\* The indices of the listing's events that ListNewEvents has observed.
ObservedIndices ==
    {i \in 1..Len(feed) : haveObserved(user.EventLastCreatedAt, feed[i].CreatedAt)}

\* The first of them.
FirstObserved == CHOOSE i \in ObservedIndices : \A j \in ObservedIndices : i <= j

\* The page of the listing that holds its i-th event.
PageHolding(i) == ((i - 1) \div PerPage) + 1

\* C18: when the listing holds an event at or below the non-zero
\* watermark, ListNewEvents returns the events before the first such event
\* and nothing after it, and the last page it requested is the page
\* holding that event.
C18_NoPageAfterBoundary ==
    (pc \in {"SetUsersPollResult", "Filter"} /\ ObservedIndices # {})
        => /\ opt = PageHolding(FirstObserved)
           /\ Len(events) = FirstObserved - 1
           /\ \A i \in 1..Len(events) : events[i].RawEvent = feed[i]

\* C18 witness: ListNewEvents has returned new events from the first page,
\* where it met an observed event, and later pages of the listing, wholly
\* at or below the watermark, were not requested.
C18_Witness ==
    /\ pc = "SetUsersPollResult"
    /\ opt = 1
    /\ Len(feed) > PerPage
    /\ ObservedIndices # {}
    /\ \A i \in (PerPage + 1)..Len(feed) : i \in ObservedIndices

\* The createdAt of the listing's event of the given id.
CreatedAtOf(id) == (CHOOSE e \in {feed[i] : i \in 1..Len(feed)} : e.ID = id).CreatedAt

\* C19: polling a user whose EventLastCreatedAt is zero, PollUser fetches
\* with the first-poll epoch as the boundary: no event at or before the
\* epoch is among the fetched events or is passed to Notify.
C19_ZeroWatermarkUsesEpoch ==
    (pc \in {"ListNewEvents", "SetUsersPollResult", "Filter", "Notify"}
        /\ users[idx].EventLastCreatedAt = ZeroTime)
        => /\ user.EventLastCreatedAt = FirstPollEpoch
           /\ \A i \in 1..Len(events) : events[i].CreatedAt > FirstPollEpoch
           /\ \A i \in 1..Len(calls) :
                  IsNotify(calls[i]) => CreatedAtOf(calls[i].id) > FirstPollEpoch

\* C19 witness: on its first poll an account whose listing holds events
\* after, at and before the epoch has had an event notified.
C19_Witness ==
    /\ pc = "Notify"
    /\ users[idx].EventLastCreatedAt = ZeroTime
    /\ \E i \in 1..Len(calls) : IsNotify(calls[i])
    /\ \E i \in 1..Len(feed) : feed[i].CreatedAt = FirstPollEpoch
    /\ \E i \in 1..Len(feed) : feed[i].CreatedAt < FirstPollEpoch

\* C20: a user whose EventNextPoll is later than time.Now() is skipped:
\* PollUser returns nil without loading filters, fetching, writing or
\* notifying.
C20_NotDueIsSkipped ==
    (pc \in {"ListNewEvents", "SetUsersPollResult", "Filter", "Notify", "PollUsers"}
        /\ users[idx].EventNextPoll > now)
        => /\ pc = "PollUsers"
           /\ result = ""
           /\ calls = << >>

\* C21: after a fetch that returned at least one event, the next poll time
\* PollUser has handed to SetUsersPollResult is the current time plus the
\* poll interval the fetch returned.
C21_NextPollIsNowPlusInterval ==
    (pc \in {"Filter", "Notify"} /\ Len(events) > 0)
        => /\ IsWrite(calls[1])
           /\ pollInterval \in 1..MaxPollInterval
           /\ calls[1].nextPoll = now + pollInterval

\* C21 witness: the fetch returned an event and the largest poll interval,
\* and the write was made with them.
C21_Witness ==
    /\ pc = "Filter"
    /\ Len(events) > 0
    /\ pollInterval = MaxPollInterval
    /\ calls[1].nextPoll = now + MaxPollInterval

\* C22: the poll interval ListNewEvents returns is the X-Poll-Interval of
\* the last page it requested, the page of the stop boundary included.
C22_PollIntervalOfLastPage ==
    pc \in {"SetUsersPollResult", "Filter"}
        => /\ Len(headers) = opt
           /\ pollInterval = ParseInt(HeaderGet(headers[opt])).n

\* C22 witness: ListNewEvents has returned from the second page, where it
\* met an observed event, the two pages' poll intervals being different.
C22_Witness ==
    /\ pc = "SetUsersPollResult"
    /\ opt = 2
    /\ ObservedOnPage(2)
    /\ headers[1] # headers[2]
    /\ pollInterval = ParseInt(HeaderGet(headers[2])).n

\* C23: the events a fetch returns are strictly ordered by createdAt
\* descending: no two share a createdAt and none is newer than an earlier
\* one.
C23_StrictlyDescending ==
    pc \in {"SetUsersPollResult", "Filter"}
        => \A i, j \in 1..Len(events) :
               i < j => events[i].CreatedAt > events[j].CreatedAt

\* C23 as amended: of a reverse-chronological listing, the events a fetch
\* returns are ordered by createdAt descending, events of the same second
\* following each other: none is newer than an earlier one.
C23_Descending ==
    pc \in {"SetUsersPollResult", "Filter"}
        => \A i, j \in 1..Len(events) :
               i < j => events[i].CreatedAt >= events[j].CreatedAt

\* C23 witness: a fetch has returned two events of the same second and an
\* older one after them.
C23_Witness ==
    /\ pc = "SetUsersPollResult"
    /\ Len(events) = 3
    /\ events[1].CreatedAt = events[2].CreatedAt
    /\ events[2].CreatedAt > events[3].CreatedAt

\* C24: once the context is cancelled, PollUsers starts the poll of no
\* further user of the cycle.
C24_CancelStopsBetweenAccounts ==
    [][(cancelled /\ pc = "PollUsers") => pc' # "PollUser"]_vars

\* A cycle of PollUsers starts at a tick of the ticker taken in Poll's
\* select, and at nothing else.
OnePollUsersPerTick ==
    /\ now' # now => (pc = "Poll" /\ now' = now + 1
                        /\ pc' \in {"PollUser", "PollUsersReturned"})
    /\ (pc = "Poll" /\ pc' # "Poll") => (now' = now + 1 \/ pc' = "returned")

\* Whatever PollUsers returned, Poll goes back to its select.
PollUsersErrorIsLogged == pc = "PollUsersReturned" => pc' = "Poll"

\* C25: Poll runs PollUsers once per tick; it returns only when the
\* context is cancelled, never because PollUsers returned an error; and
\* once the context is cancelled it does return.
C25_PollReturnsOnlyOnCancel ==
    /\ [](pc = "returned" => cancelled)
    /\ [][OnePollUsersPerTick /\ PollUsersErrorIsLogged]_vars
    /\ (cancelled ~> pc = "returned")

\* C25 witness: Poll has returned, its context cancelled, after a tick on
\* which it ran PollUsers over several users.
C25_Witness ==
    /\ pc = "returned"
    /\ cancelled
    /\ now = MaxTicks
    /\ Len(dbUsers) > MaxErrorCount

\* C26: evaluating the rules a second time on the events already evaluated,
\* with the same filters and default, gives every event the verdict it
\* has and changes nothing else of it.
C26_FilterIsIdempotent ==
    pc = "Notify"
        => EventsFilter(events, filters, user.FilterDefaultDiscard) = events

\* C26 witness: an event that none of two filters matches has been
\* evaluated and discarded.
C26_Witness ==
    /\ pc = "Notify"
    /\ Len(filters) = 2
    /\ FirstMatch(filters, events[1].RawEvent, 1) = 0
    /\ events[1].Discarded

\* The event types ParseEvent has a mapping of.
MappedTypes ==
    { "CommitCommentEvent", "CreateEvent", "ForkEvent", "GollumEvent",
      "IssueCommentEvent", "IssuesEvent", "PullRequestEvent", "PushEvent" }

\* C27: an event whose payload decodes is parsed without error whatever its
\* type; of a type without a mapping the parsed event has the raw event's
\* type, createdAt and public, and empty actor, action, subject, title and
\* body; of a type with a mapping its String() is its title and not empty.
C27_UnmappedTypesParse ==
    /\ (pc = "PollUsers" /\ feed[1].PayloadOK) => result # "ParseEvent"
    /\ pc = "SetUsersPollResult"
           => LET raw == feed[1]
                  e   == events[1]
              IN  /\ e.Type = raw.Type
                  /\ e.CreatedAt = raw.CreatedAt
                  /\ e.Public = raw.Public
                  /\ raw.Type \notin MappedTypes
                         => /\ e.Actor = << >> /\ e.Action = << >>
                            /\ e.Subject = << >> /\ e.Title = << >>
                            /\ e.Body = << >>
                  /\ raw.Type \in MappedTypes
                         => String(e) = e.Title /\ String(e) # << >>

\* C27 witness: an event of a type the switch has no case of, its actor
\* and repository given, has been parsed.
C27_Witness ==
    /\ pc = "SetUsersPollResult"
    /\ feed[1].Type = "SponsorshipEvent"
    /\ feed[1].Actor # "" /\ feed[1].Repo # ""
    /\ events[1].Type = "SponsorshipEvent"
    /\ events[1].Title = << >>

\* C28: a request of a route under /console reaches the wrapped handler
\* only if its session holds a userID: without one the answer is a
\* redirect to /login, on an error of the session store it is 500, and in
\* both cases the wrapped handler is not invoked.
C28_ConsoleRequiresLogin ==
    /\ [](\A r \in 1..MaxRequests :
            LET q == reqs[r]
            IN  (q.handler = "RequireLogin" /\ q.pc = "done")
                   => /\ q.err => (q.status = 500 /\ ~q.served)
                      /\ (~q.err /\ ~q.loggedIn)
                            => (q.status = 302 /\ q.location = "/login" /\ ~q.served)
                      /\ q.served => (q.loggedIn /\ ~q.err))
    /\ [][\A r \in 1..MaxRequests :
            (reqs'[r].served /\ ~reqs[r].served)
               => /\ reqs'[r].path \in ConsolePaths
                  /\ Exists(session[reqs'[r].sess], "userID")]_vars

\* C28 witness: after a login through GitHub put a userID in its session,
\* a request of a /console route in that session was served.
C28_Witness ==
    \E r1, r2 \in 1..MaxRequests :
        /\ reqs[r1].handler = "LoginCallback" /\ reqs[r1].status = 303
        /\ reqs[r2].handler = "RequireLogin" /\ reqs[r2].served
        /\ reqs[r2].sess = reqs[r1].sess
        /\ Exists(session[reqs[r2].sess], "userID")
        /\ session[reqs[r2].sess]["userID"] = reqs[r1].userID

\* The rows of the users table of a github_id.
RowsOf(table, githubID) ==
    { i \in 1..Len(table) : table[i].github_id = githubID }

FeedDescending ==
    \A i, j \in 1..Len(feed) : i < j => feed[i].CreatedAt >= feed[j].CreatedAt

\* The events of the listing created after the watermark of the fetch.
NewIndices ==
    { i \in 1..Len(feed) : feed[i].CreatedAt > user.EventLastCreatedAt }

\* C30: of a listing in reverse chronological order ListNewEvents returns
\* exactly the events created after the watermark, in the listing's order:
\* the longest prefix of the pages above the watermark. With the zero
\* watermark it returns every event of every page, whatever the order.
C30_ReturnsThePrefixAboveWatermark ==
    pc \in {"SetUsersPollResult", "Filter"}
        => /\ FeedDescending
                 => /\ NewIndices = 1..Len(events)
                    /\ \A i \in 1..Len(events) : events[i] = ParseEvent(feed[i])
           /\ user.EventLastCreatedAt = ZeroTime
                 => /\ Len(events) = Len(feed)
                    /\ \A i \in 1..Len(feed) : events[i] = ParseEvent(feed[i])

\* C30 witness: of a listing in reverse chronological order whose second
\* page holds the first event at or below the non-zero watermark, a fetch
\* has returned the events before it, of both pages.
C30_Witness ==
    /\ pc = "SetUsersPollResult"
    /\ FeedDescending
    /\ user.EventLastCreatedAt # ZeroTime
    /\ Len(events) > PerPage
    /\ Len(events) < Len(feed)
    /\ opt = 2

\* The phase of PollUser a collaborator call belongs to.
PhaseOf(c) ==
    CASE c.op = "SetUsersPollResult" -> 1
      [] c.op = "Filter" -> 2
      [] c.op = "Notify" -> 3

\* The calls of Events.Filter in the current PollUser.
FilterCalls == { i \in 1..Len(calls) : calls[i].op = "Filter" }

\* C31: within a cycle the phases come in the order fetch, persist, filter,
\* dispatch: Events.Filter runs at most once, over every fetched event; no
\* event is discarded before it has run; and it has run before the first
\* Notify call.
C31_PhasesInOrder ==
    /\ \A i, j \in 1..Len(calls) : i < j => PhaseOf(calls[i]) <= PhaseOf(calls[j])
    /\ Cardinality(FilterCalls) <= 1
    /\ pc \in {"ListNewEvents", "SetUsersPollResult", "Filter"}
          => /\ FilterCalls = {}
             /\ \A i \in 1..Len(calls) : ~IsNotify(calls[i])
             /\ \A i \in 1..Len(events) : ~events[i].Discarded
    /\ pc = "Notify"
          => /\ Cardinality(FilterCalls) = 1
             /\ \A i \in FilterCalls : calls[i].n = Len(events)
    /\ \A i \in 1..Len(calls) :
          IsNotify(calls[i]) => \E j \in 1..(i - 1) : calls[j].op = "Filter"

\* C31 witness: a cycle that fetched several events has written the poll
\* result, filtered them, discarding one, and notified another.
C31_Witness ==
    /\ pc = "Notify"
    /\ Len(calls) >= 3
    /\ IsWrite(calls[1]) /\ calls[2].op = "Filter" /\ IsNotify(calls[3])
    /\ calls[2].n >= 2
    /\ \E i, j \in 1..Len(events) : events[i].Discarded /\ ~events[j].Discarded

\* The positions of PollUser and of the calls it makes.
InPollUser ==
    pc \in {"PollUser", "ListNewEvents", "SetUsersPollResult", "Filter", "Notify",
            "PollUsers"}

\* C32: within a tick each user is polled at most once, in the order of
\* the list and one at a time: the user being polled is the one after
\* those whose polls have returned; and no fetch is begun for a user whose
\* poll has returned in this tick, failed or not.
C32_OnePollPerUserPerTick ==
    /\ [](/\ Len(polled) <= Len(users)
          /\ \A i \in 1..Len(polled) : polled[i].id = users[i].ID
          /\ \A i, j \in 1..Len(polled) : i # j => polled[i].id # polled[j].id
          /\ InPollUser => idx = Len(polled) + 1)
    /\ [][(pc = "PollUser" /\ pc' = "ListNewEvents")
             => \A i \in 1..Len(polled) : polled[i].id # user'.ID]_vars

\* C32 witness: of three users the second one's poll failed, and the tick
\* went on to the third and ended with each user polled once.
C32_Witness ==
    /\ pc = "PollUsersReturned"
    /\ Len(users) = 3
    /\ Len(polled) = 3
    /\ ~polled[1].failed /\ polled[2].failed /\ ~polled[3].failed

\* C33: when a fetch succeeds with no new event, PollUser does not call
\* SetUsersPollResult, so that neither the watermark nor the next poll
\* time is written and the poll interval the fetch returned goes
\* unrecorded, and it calls Notify for nothing.
C33_NoEventsNoWrite ==
    /\ pc = "SetUsersPollResult" => Len(events) > 0
    /\ (pc \in {"Filter", "Notify"} /\ Len(events) = 0)
          => \A i \in 1..Len(calls) : ~IsWrite(calls[i]) /\ ~IsNotify(calls[i])
    /\ \A i \in 1..Len(calls) :
          (calls[i].op = "Filter" /\ calls[i].n = 0)
             => /\ i = 1
                /\ Len(calls) = 1

\* C33 witness: a fetch of a listing that holds only observed events has
\* returned no event and a poll interval, and PollUser has gone on to its
\* notification loop without a write.
C33_Witness ==
    /\ pc = "Notify"
    /\ Len(feed) > 0
    /\ Len(events) = 0
    /\ pollInterval > 0
    /\ calls = << [op |-> "Filter", n |-> 0] >>

\* The X-Poll-Interval header is there and its value is no number.
Unparsable(header) ==
    header.present /\ \E i \in 1..Len(header.value) : header.value[i] \notin DecimalDigits

\* The header of the latest response to the fetch.
LastHeader == headers[Len(headers)]

\* C34: when a response has no X-Poll-Interval header, as when it has one
\* that is no number, ListNewEvents fails with the error of parsing the
\* header and returns no events and no poll interval; every response
\* before it had a header that parses.
C34_MissingHeaderIsAParseError ==
    Len(headers) > 0
       => /\ (~LastHeader.present \/ Unparsable(LastHeader))
                => /\ pc = "PollUsers"
                   /\ result = "X-Poll-Interval"
                   /\ events = << >>
                   /\ pollInterval = 0
          /\ \A i \in 1..(Len(headers) - 1) :
                headers[i].present /\ ~Unparsable(headers[i])

\* C34 witness: the first page of a listing gave new events, the response
\* with the second page has no X-Poll-Interval header, and ListNewEvents
\* has failed.
C34_Witness ==
    /\ pc = "PollUsers"
    /\ Len(feed) > PerPage
    /\ Len(headers) = 2
    /\ ~haveObserved(users[1].EventLastCreatedAt, feed[1].CreatedAt)
    /\ headers[1].present
    /\ headers[2] = NoHeader
    /\ result = "X-Poll-Interval"

\* The events of newEvents that some filter matches, in their order.
Matched(es, fs) == SelectSeq(es, LAMBDA e : AnyFilterMatches(fs, e))

\* C35: PollUser of poller/poller.go gets through its filter-and-notify
\* step without a runtime fault whatever the number of fetched events, zero
\* and fewer than five included, and the events it goes on to notify of
\* are all the fetched events that some filter matches.
C35_NoFaultEveryEventConsidered ==
    /\ pc # "panic"
    /\ pc = "SendNotifications" => notifyEvents = Matched(events, filters)

\* The userID of the session a request came in.
SessionUserID(q) == session[q.sess]["userID"]

\* The handler of the request has rendered its filter, or has updated it,
\* or has attached a condition to it.
Acted(q) ==
    \/ q.page # NoFilter
    \/ /\ q.handler \in {"FilterUpdate", "ConditionCreate"}
       /\ q.status = 302
       /\ q.location = "referer"

\* C36: Filter, FilterUpdate and ConditionCreate render, update and attach
\* a condition to no filter whose UserID is not the userID of the request's
\* session, and every condition ConditionCreate has stored carries the
\* filterID its ownership check was made on, whatever the form named.
C36_OnlyOwnFilters ==
    /\ [](\A r \in 1..MaxRequests :
             Acted(reqs[r])
                => /\ reqs[r].filterID \in 1..Len(sqlFilters)
                   /\ sqlFilters[reqs[r].filterID].user_id = SessionUserID(reqs[r])
                   /\ reqs[r].page # NoFilter
                         => /\ reqs[r].page.ID = reqs[r].filterID
                            /\ reqs[r].page.UserID = SessionUserID(reqs[r]))
    /\ [](\A i \in 1..Len(sqlConditions) :
             \E r \in 1..MaxRequests :
                /\ reqs[r].handler = "ConditionCreate"
                /\ reqs[r].conditionID = i
                /\ sqlConditions[i].filter_id = reqs[r].filterID
                /\ sqlFilters[reqs[r].filterID].user_id = SessionUserID(reqs[r]))
    /\ [][\A i \in 1..Len(sqlFilters) :
             sqlFilters'[i] # sqlFilters[i]
                => /\ sqlFilters'[i].id = sqlFilters[i].id
                   /\ sqlFilters'[i].user_id = sqlFilters[i].user_id
                   /\ \E r \in 1..MaxRequests :
                         /\ reqs[r].pc = "db.FilterUpdate"
                         /\ reqs'[r].pc = "done"
                         /\ reqs[r].filterID = i
                         /\ sqlFilters[i].user_id = SessionUserID(reqs[r])]_vars

\* C36 witness: a request has named another user's filter in the form
\* field FilterID and its own in filterID, and the condition was stored
\* with its own; another request has updated a filter of its user.
C36_Witness ==
    \E r1, r2 \in 1..MaxRequests :
        /\ reqs[r1].handler = "ConditionCreate"
        /\ reqs[r1].status = 302
        /\ reqs[r1].field = "FilterID"
        /\ ParseInt(reqs[r1].value).n \in 1..Len(sqlFilters)
        /\ sqlFilters[ParseInt(reqs[r1].value).n].user_id # SessionUserID(reqs[r1])
        /\ sqlConditions[reqs[r1].conditionID].filter_id = reqs[r1].filterID
        /\ reqs[r2].handler = "FilterUpdate"
        /\ reqs[r2].status = 302
        /\ sqlFilters[reqs[r2].filterID].on_match_discard

\* C37: LoginCallback goes on to exchange the code and to log the session
\* in only when the session holds a state that a Login before it has put
\* there and the request's state equals it, and that state is gone from
\* the session afterwards: a callback in a session with no pending state,
\* or one that repeats a used state, is rejected.
C37_CallbackNeedsPendingState ==
    [][\A r \in 1..MaxRequests :
          (/\ reqs[r].pc = "idle"
           /\ reqs'[r].handler = "LoginCallback"
           /\ reqs'[r].pc = "GitHubLogin")
             => /\ Exists(session[reqs'[r].sess], ghOAuthStateKey)
                /\ ~Exists(session'[reqs'[r].sess], ghOAuthStateKey)]_vars

====
